---- MODULE Spec2Model ----
(***************************************************************************)
(* Model of docs/reference-question-generator.py: the question generator   *)
(* (UniqueQuestionGenerator) and the load-test harness (SimpleTestHarness: *)
(* test_conversation, run_load_test with its semaphore and gather, and     *)
(* analyze_results).                                                       *)
(*                                                                         *)
(* Spec     one call of run_load_test: the client tasks interleave at      *)
(*          their await points (semaphore acquire, session.post,           *)
(*          asyncio.sleep), then gather returns or raises.                 *)
(* GenSpec  the question generator as a function: two generation jobs      *)
(*          (process hash salt, client index) for one strategy.            *)
(* AggSpec  analyze_results as a function of the collected results.        *)
(* FairSpec Spec under the scheduling of the event loop (termination).     *)
(***************************************************************************)
EXTENDS Integers, Sequences, FiniteSets, TLC

(***************************************************************************)
(* Bounds of the model.                                                    *)
(***************************************************************************)
\* run_load_test is explored for num_clients in 1..MaxClients
MaxClients == 2
\* and max_concurrent in 1..MaxConcurrent
MaxConcurrent == 2
\* GenSpec generates for client indices 0..MaxIndex
MaxIndex == 27
\* AggSpec aggregates 0..MaxSamples successful Turns
MaxSamples == 101
\* and 0..MaxFailedFirst conversations that failed on their first Turn
MaxFailedFirst == 2

(***************************************************************************)
(* Program constants.                                                      *)
(***************************************************************************)
\* seed = client_id * 1337
SeedMultiplier == 1337
\* [:5]  "Use 5 questions per conversation"
QuestionsPerConversation == 5
\* questions[:8] in mixed_questions
MixedQuestionCount == 8
\* random.sample(strategy_questions, 2)
MixedSampleSize == 2
\* response.status == 200
StatusOK == 200

(***************************************************************************)
(* The process-wide generator of the random module.                       *)
(*                                                                         *)
(* A seed is the Python int  n + hash(tag)  where hash is the str hash of  *)
(* the running process (salted per process, PYTHONHASHSEED); tag = "" is   *)
(* the plain int n.  The sum exceeds the integers of the checker, so it is *)
(* kept as the record of its parts.                                        *)
(*                                                                         *)
(* mt_stream(seed) is the output of CPython's Mersenne Twister after       *)
(* random.seed(seed): the top 16 bits of each successive 32-bit word, as   *)
(* produced by random.Random(seed).getrandbits(32) >> 16.  It is tabulated *)
(* for the seeds client_id * 1337 (PlainStream) and, for the hash salts 1  *)
(* and 2, client_id * 1337 + hash(strategy) (SaltedStream1, 2), client_id  *)
(* in 0..MaxIndex+1.  Md5 tables: hashlib.md5(str(seed)).hexdigest()[:8].  *)
(***************************************************************************)
HashSalts == {1, 2}

SubStrategies == <<"historical", "mathematical", "geographical", "hypothetical", "technical">>

IntSeed(n) == [n |-> n, salt |-> 0, tag |-> ""]

\* seed + hash(strategy) in a process whose str hash has the given salt
SeedPlusHash(seed, salt, tag) == [n |-> seed.n, salt |-> salt, tag |-> tag]

TagIndex(tag) == CHOOSE k \in 1..Len(SubStrategies) : SubStrategies[k] = tag

PlainStream ==
  <<
    <<55340, 25247, 49673, 58343, 27562, 2653, 16968, 63272, 33506, 31845, 26537, 60177, 51367, 54385, 19877, 63425, 31234, 23465, 38232, 58435, 59514, 14315, 33075, 9127>>,
    <<40485, 60655, 34948, 46522, 23976, 37419, 38390, 47965, 10858, 50803, 54026, 21809, 25146, 41607, 51748, 23582, 60406, 65250, 20161, 25660, 65027, 45686, 13431, 49908>>,
    <<50072, 2243, 42395, 18901, 39944, 20581, 32844, 35079, 27217, 40644, 25689, 62881, 27477, 60249, 35881, 42058, 39191, 10625, 57468, 33853, 54412, 29549, 61921, 64295>>,
    <<3097, 26505, 41744, 8209, 12973, 49981, 30993, 41153, 13083, 54095, 55620, 5792, 53458, 58150, 61092, 21289, 53873, 11204, 38723, 56907, 45262, 39030, 2798, 26141>>,
    <<29021, 44050, 45980, 16993, 63791, 39242, 61104, 4887, 52634, 15694, 3959, 37043, 5091, 42705, 27835, 37062, 6985, 57963, 18351, 5455, 57506, 29951, 42711, 3718>>,
    <<19485, 25107, 24867, 49946, 23556, 64988, 43199, 26043, 45939, 11265, 46978, 22090, 33744, 64654, 32748, 41093, 32331, 54633, 29273, 48240, 39044, 13572, 31716, 8492>>,
    <<2467, 23522, 45228, 12796, 41275, 62008, 28525, 52220, 50860, 31845, 44833, 22925, 19157, 56072, 53261, 14563, 63633, 58057, 64087, 45612, 33427, 3213, 28629, 7228>>,
    <<25355, 14964, 13710, 64205, 54468, 6700, 17116, 62243, 47059, 42803, 55932, 18014, 37593, 47048, 11910, 57105, 30833, 21608, 9482, 58966, 48792, 49039, 50530, 41365>>,
    <<11328, 3777, 49875, 29978, 29057, 63132, 736, 50455, 26705, 3463, 33408, 27587, 65184, 3919, 15365, 27457, 24673, 60287, 7213, 64625, 15469, 8901, 27152, 33616>>,
    <<60576, 48998, 65208, 53117, 43046, 13975, 2576, 6078, 59603, 52815, 29096, 19979, 57643, 29458, 12753, 20210, 49135, 53352, 23879, 27411, 15697, 27916, 48019, 6076>>,
    <<50379, 17667, 46998, 45964, 49187, 53113, 57291, 52808, 55074, 37187, 18004, 9346, 49393, 57229, 18104, 62984, 63327, 62992, 63900, 56024, 2181, 63491, 13600, 57822>>,
    <<10915, 34984, 47637, 51271, 39694, 64647, 52791, 19987, 43006, 4288, 34511, 41855, 25750, 41282, 23206, 58384, 62784, 50322, 45642, 29192, 21750, 50138, 29860, 10235>>,
    <<50174, 50227, 35425, 21351, 64523, 24299, 55213, 12733, 61853, 3131, 47640, 26655, 30246, 47409, 29561, 18040, 43864, 4957, 60855, 49175, 44536, 60934, 16766, 48975>>,
    <<7258, 60877, 52762, 5584, 57099, 42864, 63221, 38411, 32700, 23524, 64403, 23016, 22785, 3888, 56453, 23342, 24910, 10319, 46778, 41245, 61992, 51239, 24003, 41249>>,
    <<7111, 46200, 19880, 43725, 40297, 42624, 52806, 4389, 21772, 15817, 56539, 35175, 19387, 48755, 63728, 49541, 38305, 35784, 50138, 43256, 11319, 31681, 58941, 22899>>,
    <<54485, 53887, 3493, 31340, 43842, 19191, 46623, 9307, 39754, 20072, 60744, 64531, 57734, 42910, 7607, 32715, 62784, 42522, 36400, 59458, 29158, 54080, 7281, 24192>>,
    <<8458, 15313, 14626, 46541, 5048, 4415, 48131, 27972, 25584, 31226, 9338, 27723, 4158, 19897, 42238, 39968, 56066, 38237, 64332, 4628, 5283, 4420, 46603, 27690>>,
    <<15116, 25763, 24639, 36125, 37022, 22459, 21894, 19635, 36718, 3830, 13111, 9183, 6552, 39512, 55242, 30499, 1681, 24808, 28759, 1652, 16914, 28656, 61113, 295>>,
    <<21990, 30236, 8879, 20485, 10383, 27322, 55668, 1744, 2760, 49431, 51103, 38435, 15786, 44538, 45871, 27849, 39731, 4812, 12059, 38269, 11842, 23944, 419, 34732>>,
    <<16446, 18927, 57858, 18898, 5644, 13218, 61273, 44905, 38662, 62182, 16065, 21178, 17002, 23339, 58088, 56004, 54329, 7796, 10966, 43358, 48502, 31947, 27319, 42044>>,
    <<50629, 15017, 44142, 4232, 36159, 34881, 52575, 41942, 27972, 37835, 62882, 33520, 48736, 61138, 36232, 57138, 28824, 31544, 53359, 22908, 63202, 31604, 59227, 41981>>,
    <<61370, 33166, 59814, 28010, 53444, 30493, 43422, 56788, 31220, 36413, 16023, 62869, 20688, 24409, 54626, 34955, 20513, 20039, 17287, 52760, 36388, 54143, 42264, 15196>>,
    <<46930, 15714, 47430, 38962, 60639, 49633, 6059, 53012, 61574, 2467, 59936, 1391, 2231, 60434, 25932, 7504, 40147, 8857, 41045, 46469, 57887, 21974, 5230, 17617>>,
    <<7947, 64096, 8792, 35682, 30085, 37030, 33427, 51128, 53590, 55107, 25134, 52200, 3182, 28313, 710, 38888, 10232, 19775, 47735, 50526, 1136, 60323, 21443, 39439>>,
    <<21050, 34842, 26266, 37904, 51528, 61125, 37796, 55642, 17003, 64750, 11920, 53793, 55338, 5382, 8502, 49880, 121, 50547, 42638, 43494, 16487, 54576, 36742, 9944>>,
    <<59850, 38299, 18555, 22729, 39355, 50801, 54697, 44169, 11747, 599, 59262, 55140, 27618, 31894, 45847, 54094, 26743, 44290, 24005, 42996, 26666, 16092, 54998, 42371>>,
    <<47782, 21280, 51125, 20753, 17554, 47929, 64234, 58215, 57693, 9699, 4830, 63087, 13894, 3033, 23017, 54016, 8772, 40413, 37882, 54604, 16694, 7046, 2339, 2684>>,
    <<58796, 34959, 58846, 16431, 24999, 58603, 30718, 61263, 11632, 4941, 24965, 12985, 43741, 44613, 43213, 62100, 4719, 30752, 61930, 11012, 16467, 4498, 21215, 22460>>,
    <<33681, 53119, 47669, 48709, 6892, 50577, 10095, 23719, 38160, 3298, 55870, 9862, 58060, 25084, 2737, 44856, 31965, 434, 19437, 2811, 19532, 55504, 45866, 4255>>
  >>

PlainMd5 ==
  <<
    "cfcd2084",
    "e48e1320",
    "a8345c3b",
    "b14680de",
    "b32e8760",
    "f72f78a3",
    "60c97bef",
    "e234e195",
    "43bb733c",
    "78f41579",
    "366c0196",
    "db822956",
    "b1f391b6",
    "33681279",
    "53adb96c",
    "05d9bada",
    "b681006b",
    "65c2dd61",
    "6546822e",
    "d268221f",
    "96fa5da1",
    "12714757",
    "0b214389",
    "f6b35e52",
    "aa773e29",
    "8f4d106e",
    "8a16b0e6",
    "712775ba",
    "9be7eaf5"
  >>

SaltedStream1 ==
  <<
    << <<20548, 52294, 36539, 6740, 4875, 27818, 35818, 34671>>,
       <<57440, 54822, 65356, 49788, 512, 9979, 6462, 51653, 51285, 31900, 28889, 15348, 39211, 22113>>,
       <<28842, 12984, 56917, 17999, 13323, 23446, 268, 63836, 58902>>,
       <<61949, 38208, 39687, 52985, 5523, 22036, 46246, 15009, 8673, 52068, 2323, 55240>>,
       <<51474, 64419, 1263, 26051, 46704, 33061, 29688, 41551, 49101, 62058, 59249>> >>,
    << <<12641, 235, 3891, 45263, 19306, 54466>>,
       <<46960, 39332, 31835, 27841, 7365, 52580, 25177, 56554, 9813>>,
       <<6747, 31598, 32062, 18767, 23757, 11540, 39645, 54915>>,
       <<41633, 54806, 49834, 61584, 5770, 42895, 10648, 7414, 37923, 28035, 50349, 4099, 25858, 18649>>,
       <<37314, 22360, 46394, 61243, 1576, 7736, 5653, 29104, 39071>> >>,
    << <<30375, 1374, 26020, 4071, 56105, 42046>>,
       <<56646, 11649, 17801, 64391, 44634, 44940, 8365, 51327, 8373, 47131, 40450>>,
       <<26732, 37724, 61477, 54348, 64496, 41386, 37417, 11991, 28952, 25429, 16729, 56992, 37733, 7063>>,
       <<45586, 56725, 1365, 1358, 51320, 51237, 16643, 64158, 61272, 5166, 15412, 43525, 56911, 50115>>,
       <<54558, 56438, 43213, 53055, 41055, 59194, 34182, 40484, 26315, 61924, 30144, 14830, 58692, 13018, 21309, 7669, 47952>> >>,
    << <<21248, 25675, 8003, 48063, 19590, 12977>>,
       <<4526, 62744, 62484, 28541, 21709, 20211, 11469, 32365, 10521, 54188>>,
       <<43976, 46784, 45247, 1596, 56149, 61766, 55737, 56768, 35219, 64465, 45488, 19090, 396, 59799, 51953, 15259, 11098, 41397, 62094, 8551>>,
       <<16119, 12868, 15538, 58783, 47036, 56876, 44326, 18499, 64730, 20166, 46366, 21400, 65223, 56817>>,
       <<57089, 4776, 37254, 63849, 63930, 56981, 30917, 52357, 2843, 17198, 50862>> >>,
    << <<45143, 4764, 60044, 6947, 31224, 64321, 25941, 25816>>,
       <<41485, 65383, 47095, 25257, 51857, 38184, 15483, 65494, 12353, 37210, 49074, 17733, 41392>>,
       <<57451, 53212, 21272, 57564, 32806, 49453, 14047, 33556, 28422, 31548, 24226, 53365, 39657>>,
       <<31460, 19181, 27071, 12860, 63266, 1372, 3642, 10892, 44500, 64260>>,
       <<64798, 10257, 49222, 55898, 12360, 16195, 30485, 42616, 35608, 46122, 18319>> >>,
    << <<27714, 29460, 52896, 29959, 61760, 62492>>,
       <<15373, 13341, 24255, 33563, 54254, 26911, 51970, 2592, 43026, 58247>>,
       <<3765, 3466, 24089, 5898, 17107, 34508, 32663, 47904>>,
       <<28970, 1593, 44913, 27521, 473, 17171, 36786, 8622, 45641, 44321>>,
       <<44136, 35009, 5647, 19235, 27708, 45476, 52953, 61141, 16598>> >>,
    << <<35074, 54467, 63429, 61087, 13217, 6191, 45659, 15078, 25083, 40228>>,
       <<38085, 4262, 4507, 15191, 36394, 39337, 22376, 13414>>,
       <<41978, 11074, 33619, 54934, 22868, 47741, 17405, 48814, 10413, 6551, 12155>>,
       <<60568, 60502, 49564, 64116, 7015, 60330, 8259, 24201, 21079, 16447, 43260, 49670, 4614, 46377>>,
       <<31444, 48061, 62707, 49661, 30173, 61929, 21708, 35938, 20140, 28684, 24124, 45010, 48744>> >>,
    << <<14862, 64819, 24484, 40213, 222, 50980, 10608>>,
       <<50767, 15216, 53599, 11853, 17173, 54497, 696, 44274, 34339, 25654, 52456>>,
       <<18427, 18695, 63669, 25145, 18225, 12898, 60274, 19064, 63209>>,
       <<59107, 34774, 43928, 38172, 31403, 40426, 35353, 44983, 19519, 49568, 16089, 30894, 5472>>,
       <<55737, 38524, 56635, 29961, 25743, 11572, 3755, 60762, 61455, 54116>> >>,
    << <<31141, 40206, 52169, 32790, 60262, 26703, 3992, 15739, 45376, 5974>>,
       <<17793, 15135, 57968, 39549, 44682, 36301, 2322, 3618, 33387, 46750, 31716>>,
       <<11742, 477, 14850, 19872, 33477, 34391, 50810, 57335>>,
       <<30861, 38367, 9841, 10654, 56051, 51505, 59762, 38911, 43033, 58349, 55102, 3852, 32997, 10451, 56757, 61023>>,
       <<8443, 42048, 64471, 47133, 57763, 48710, 25488, 40731, 23868, 61094, 37937, 22376, 51152, 57365>> >>,
    << <<25655, 418, 23566, 27956, 17184, 59258>>,
       <<24021, 5046, 34208, 10442, 38602, 61322, 8732, 25727>>,
       <<18502, 32978, 10181, 45999, 15533, 40988, 57307, 32786, 10350>>,
       <<18101, 16807, 4983, 49627, 50611, 35695, 53175, 50982, 4389, 28249, 59524, 45195, 54952>>,
       <<479, 7436, 31945, 8608, 48712, 32645, 20402, 41555>> >>,
    << <<647, 2898, 1593, 58818, 46329, 61595>>,
       <<50970, 44076, 53357, 28143, 38262, 2794, 48273, 4435, 7165, 37903, 62882, 3694>>,
       <<17681, 35322, 43934, 33808, 56971, 36025, 39381, 51955, 7965, 16246, 51914, 50296, 12453, 28848>>,
       <<44438, 24509, 46613, 10523, 13922, 19087, 17615, 35802, 13233, 46964>>,
       <<53602, 21345, 41465, 13857, 17687, 7118, 31164, 35856>> >>,
    << <<32866, 49668, 52068, 12553, 54231, 5247, 39092, 55718, 20883, 30354>>,
       <<24633, 24007, 11626, 15975, 41812, 19289, 9767, 29010>>,
       <<30362, 28838, 27078, 48126, 22842, 1379, 22534, 16168, 3510>>,
       <<62757, 30907, 54636, 9123, 31147, 37321, 13035, 21791, 348, 6100, 7234>>,
       <<10726, 60298, 13782, 40438, 37365, 11907, 42555, 63250, 6036, 54738>> >>,
    << <<14917, 7444, 2060, 50260, 26448, 2745>>,
       <<45112, 45773, 62017, 14386, 39151, 55670, 43611, 1369, 53306, 44199, 13840, 40812>>,
       <<18297, 11585, 27556, 50905, 37558, 62432, 37367, 54664, 30566, 43614, 25510, 15126, 12904>>,
       <<58194, 24530, 10085, 36797, 58904, 13012, 4124, 18585, 17575, 6786, 215>>,
       <<49828, 8285, 17539, 13747, 15574, 33953, 60730, 6824>> >>,
    << <<33272, 48628, 56969, 17094, 57057, 50785, 18892, 58261, 36952, 57252, 9453, 50701>>,
       <<17456, 46957, 45994, 2791, 27560, 16008, 35517, 257, 19172, 42686>>,
       <<16696, 22489, 2311, 14323, 56741, 43215, 45436, 29409>>,
       <<55582, 11904, 5831, 43569, 21554, 22637, 19302, 26848, 49285, 45309, 61094>>,
       <<13849, 28130, 6364, 24407, 27473, 62450, 59597, 58975>> >>,
    << <<63234, 2779, 15575, 13143, 53251, 25629, 21255>>,
       <<7798, 7088, 35816, 53892, 37882, 3411, 29154, 29365, 6636, 11269>>,
       <<62624, 14180, 5041, 42577, 50177, 5200, 38339, 56332, 24913, 13901, 50939, 17918, 26634>>,
       <<19641, 25392, 12932, 2878, 49839, 25166, 45005, 32177, 25978, 60198>>,
       <<35221, 28744, 55132, 40402, 39816, 4954, 46696, 36992, 58548, 56936>> >>,
    << <<43403, 28496, 15414, 35272, 26463, 941, 35636>>,
       <<40377, 28597, 21898, 13217, 64971, 50053, 40947, 3654, 27360, 12804, 5047, 51999>>,
       <<52763, 44341, 57692, 29160, 1577, 48144, 19784, 50171, 46656, 18926, 61575, 30662, 24313, 46921, 62175>>,
       <<6839, 4324, 29547, 37524, 29690, 22949, 21509, 11973, 61489>>,
       <<2400, 50204, 20816, 26533, 55277, 63503, 31862, 33548, 38933, 15977, 24778>> >>,
    << <<47634, 57222, 37350, 22339, 20421, 33966, 45589, 41052, 47557>>,
       <<3150, 21699, 9936, 32977, 63124, 27295, 31770, 32122, 20292, 53396>>,
       <<10482, 32254, 44238, 35152, 64857, 5323, 7930, 63036, 54464, 28795>>,
       <<62186, 57034, 61290, 34077, 22249, 27694, 40841, 15662, 17806, 13261, 5863, 49545>>,
       <<44015, 30330, 37981, 51078, 41360, 49297, 50584, 10741, 1988, 58487, 21602, 28417>> >>,
    << <<47867, 46206, 36128, 31638, 16380, 16191, 6577, 35085, 24892>>,
       <<19644, 57122, 50508, 11040, 30592, 47078, 61272, 64639, 29521, 15849, 1860, 27768, 14070>>,
       <<38969, 22866, 49533, 54739, 32543, 9062, 58368, 7985, 17989, 45506, 55898, 2622>>,
       <<63793, 20755, 49793, 1886, 56323, 62487, 62413, 57976, 28984, 32165, 24897, 56258, 7315, 32436, 7859>>,
       <<5090, 57316, 40916, 38770, 10804, 5769, 27307, 54135, 37165, 25010, 27764>> >>,
    << <<42210, 55090, 6597, 21617, 49455, 29953, 23565, 59637>>,
       <<13476, 53672, 58395, 46684, 14432, 19527, 25870, 8253, 10732, 5187, 20152>>,
       <<37922, 17311, 28124, 4545, 23197, 57344, 34670, 60947, 63588, 41407>>,
       <<33356, 48134, 47747, 1060, 41037, 45600, 36144, 4927, 62865, 51225, 4611, 44851, 62008, 15129, 28280>>,
       <<10445, 6877, 18308, 50228, 4579, 52311, 40149, 44819, 12555>> >>,
    << <<37233, 63168, 20668, 12059, 13388, 6651, 29762, 51823>>,
       <<54727, 36401, 45882, 54232, 55618, 2953, 28374, 32982, 14376, 20407, 20620, 21940, 2443>>,
       <<62913, 36228, 1002, 19618, 6594, 49806, 56896, 32605, 4187>>,
       <<38870, 18954, 48260, 3544, 36664, 19408, 59532, 10850, 7664, 41767, 29182>>,
       <<31477, 32014, 28508, 24350, 22964, 11051, 53690, 48252>> >>,
    << <<53524, 44666, 60533, 34321, 60654, 17893, 4359, 42665, 63061, 14171, 17195>>,
       <<39017, 38656, 45004, 7591, 28769, 45562, 23627, 56710>>,
       <<52759, 65093, 885, 52055, 5885, 13045, 5266, 62030, 26599, 61377, 59770, 1118>>,
       <<8482, 54179, 9908, 57987, 57072, 27735, 38682, 42995, 48674, 58018, 3404, 49905, 7785, 54684, 39929>>,
       <<38936, 53608, 60609, 33286, 40468, 37270, 42521, 38587, 64927, 42023, 40711, 2286, 6797, 3315, 20655, 10096, 55273, 55827>> >>,
    << <<22518, 49161, 5423, 14964, 28706, 33224, 61631>>,
       <<53538, 8206, 20150, 48528, 28879, 43539, 64503, 59900, 16984>>,
       <<61557, 13747, 16816, 36294, 60976, 14874, 26593, 26085, 20025, 32373, 62067>>,
       <<7608, 27769, 63489, 31852, 56566, 24410, 27260, 36328, 11609, 33963, 2509>>,
       <<20246, 29336, 29831, 7103, 23598, 63084, 42012, 16936>> >>,
    << <<10323, 40621, 1375, 33907, 19370, 20784, 57907>>,
       <<25523, 47639, 8868, 286, 8759, 292, 57511, 2370, 54412>>,
       <<10126, 29, 21406, 43545, 46262, 49246, 41353, 43838, 35429, 54512, 61970, 59351, 52039, 26040, 43271, 16026, 64610, 44476>>,
       <<15181, 60799, 37622, 37943, 60814, 13869, 19248, 16139, 28124, 20287, 58100>>,
       <<61620, 8743, 52945, 3785, 26111, 33873, 38727, 4732>> >>,
    << <<31582, 12348, 17538, 52530, 33446, 50659>>,
       <<989, 11485, 23460, 54712, 20977, 26919, 21145, 39699, 41489>>,
       <<38377, 63373, 4595, 50502, 14784, 12356, 25765, 14784, 2017, 40700, 40297>>,
       <<36385, 65158, 43831, 32292, 54534, 43267, 9087, 18889, 42122, 10841, 46028, 23975, 5013, 34509>>,
       <<41326, 723, 1908, 29629, 58341, 10590, 3409, 50185, 49253>> >>,
    << <<32543, 45028, 37948, 19808, 42314, 21743, 53176, 35923>>,
       <<30838, 40023, 23083, 55990, 12821, 35065, 37639, 49913, 41011, 35797, 47709, 52888, 58019, 32303, 37931, 57566, 39504, 6481>>,
       <<5000, 21400, 58916, 49389, 6356, 22033, 55972, 38676, 44757, 18302>>,
       <<42632, 27595, 48051, 62909, 14885, 34460, 15256, 54645, 23397, 44776, 5739>>,
       <<61158, 16609, 47256, 22580, 63068, 57131, 16065, 53711, 43029>> >>,
    << <<21363, 61754, 46715, 34191, 27340, 13751, 3157, 33280, 15646>>,
       <<25918, 8927, 4698, 5081, 63959, 17530, 26804, 52505, 28097>>,
       <<10952, 2054, 59551, 40270, 58536, 43061, 39765, 57543, 16665, 62215, 51078, 44539, 26076, 64979, 49441, 64813, 25126, 8827>>,
       <<55639, 53326, 58158, 47616, 22980, 7793, 34301, 32051, 7454, 11908, 62930, 64231>>,
       <<11571, 44198, 15356, 2716, 41893, 14263, 30010, 23939, 52344, 30672>> >>,
    << <<61727, 16193, 24238, 44531, 58077, 20380, 44501>>,
       <<9151, 5170, 37455, 39934, 3535, 60703, 21521, 53820, 29445, 23463>>,
       <<46110, 5984, 44873, 25101, 10531, 52661, 32791, 13827, 41983, 3809, 3416, 26709>>,
       <<61266, 39049, 45460, 34141, 53329, 18737, 1326, 5974, 12903, 58981, 7774, 33313>>,
       <<51608, 28022, 4875, 62102, 44501, 35872, 17767, 43847, 64541, 27458, 45667>> >>,
    << <<28479, 64717, 21190, 27131, 38374, 37036, 53885>>,
       <<4598, 31475, 22708, 58701, 59640, 41535, 9193, 29991, 46543, 45494, 6331>>,
       <<54276, 57887, 17242, 19677, 35027, 39196, 15163, 49117, 17645, 34008, 44106>>,
       <<62825, 62989, 32822, 15917, 6378, 25039, 13748, 35230, 43723, 31070, 5810>>,
       <<59921, 28992, 60492, 23116, 9692, 22145, 29844, 27550, 12730>> >>,
    << <<22536, 19433, 16223, 3785, 1479, 50310>>,
       <<59990, 62415, 45499, 12506, 34667, 8940, 20541, 34744, 33544, 40752, 51566>>,
       <<41685, 7194, 1581, 24203, 54576, 53128, 28673, 28525, 7378, 35923, 49870>>,
       <<45483, 44514, 43448, 30169, 63265, 30028, 23698, 40399, 16919, 1670, 47179, 64455, 12906>>,
       <<36858, 4491, 6931, 12317, 49944, 492, 58786, 189>> >>
  >>

SaltedMd51 ==
  <<
    "70082b0b",
    "dd049bdb",
    "edc4cb56",
    "073784e6",
    "94484f19",
    "7d1fef31",
    "2ce8e7ad",
    "719aaeeb",
    "5685c196",
    "2e381cbd",
    "7aa2f61c",
    "8e7d11ea",
    "4673e610",
    "cc1785f7",
    "ed017a43",
    "8beba25f",
    "172e3242",
    "005eb9d9",
    "8dc64570",
    "08b8b8d8",
    "54aa290d",
    "c3ecdb14",
    "eb269c20",
    "eb78c7cd",
    "02f05b36",
    "f88b948d",
    "802190a3",
    "87c3e005",
    "3d922aab"
  >>

SaltedStream2 ==
  <<
    << <<20585, 16140, 452, 36850, 42760, 59104>>,
       <<27572, 13265, 53699, 47261, 11146, 22176, 61949, 5108, 20742>>,
       <<10224, 24413, 2699, 62642, 30663, 45800, 7065, 54393, 22752>>,
       <<56046, 24665, 25273, 1970, 34083, 57673, 19475, 11605, 41519, 26176, 2480>>,
       <<4956, 31716, 63843, 17466, 15870, 63732, 5254, 38121, 65017, 34446>> >>,
    << <<29979, 60172, 48348, 12896, 15113, 13191, 58531, 37956>>,
       <<9309, 49342, 58953, 12594, 50612, 17611, 22157, 53297, 35497, 27757, 60631>>,
       <<19910, 2989, 16923, 51303, 40764, 52042, 49115, 4093, 12923, 44193, 31073, 33781>>,
       <<22043, 19731, 55632, 32187, 15651, 59408, 24973, 37792, 35275, 26237, 59457>>,
       <<15855, 6367, 17071, 40108, 49359, 15034, 40428, 17877, 54680, 22612>> >>,
    << <<62817, 51433, 39071, 64809, 42307, 49780, 50817, 39371, 59981, 37050, 12991, 63981, 61685, 39354, 36443, 46364, 45400, 20713, 4878, 40160, 23948, 7232>>,
       <<7009, 12542, 19222, 25196, 62438, 50244, 17320, 50238, 55002>>,
       <<56118, 50625, 1875, 40972, 3975, 11947, 43723, 60437, 59322, 15738, 55331, 53002, 17826, 42672>>,
       <<28894, 14331, 53210, 22987, 30691, 27103, 5167, 59283, 23922, 17452>>,
       <<26386, 56455, 6984, 30322, 51646, 16750, 44658, 63297, 7093, 60776>> >>,
    << <<17991, 372, 47225, 5987, 57501, 64667>>,
       <<6429, 35793, 12319, 11104, 33788, 32099, 492, 50504>>,
       <<47472, 26232, 49826, 32232, 24249, 56942, 40688, 2261, 4506, 16300, 4821, 48211>>,
       <<8090, 11843, 11756, 22787, 32978, 64553, 44399, 63713, 28356, 47983, 63463, 25288, 9275>>,
       <<5070, 39087, 21794, 48060, 40170, 1596, 40893, 8256, 42420, 3026>> >>,
    << <<9853, 25111, 14680, 48410, 40975, 20734>>,
       <<39126, 4014, 34950, 51399, 16672, 7731, 51548, 63808, 28290>>,
       <<41423, 9807, 44339, 7718, 64650, 23872, 36777, 41597, 25712, 38676, 60250, 57096, 4099>>,
       <<12064, 47792, 16201, 54834, 36852, 5792, 39053, 9536, 11960, 58656, 44641, 44972>>,
       <<46940, 49949, 59456, 4957, 23340, 21764, 64141, 62741, 58346, 5155, 40307, 41970, 4784>> >>,
    << <<24276, 58888, 29366, 47288, 46580, 29503, 42585>>,
       <<7804, 34842, 52091, 41522, 30479, 50600, 59263, 45157, 26645>>,
       <<16713, 36749, 2085, 27297, 13031, 44546, 13365, 19752, 3993>>,
       <<54779, 13117, 21494, 57147, 591, 38852, 35115, 51906, 10637, 4543, 23688, 33610, 29596>>,
       <<9982, 50225, 22650, 42725, 56386, 4199, 17036, 46159, 50374, 13082>> >>,
    << <<46652, 31617, 17799, 56461, 39150, 55925, 2574>>,
       <<31729, 22392, 11304, 59782, 57939, 55042, 52800, 11712, 54736, 40711, 30326, 41299>>,
       <<22241, 22813, 49751, 56676, 58679, 18781, 40489, 56061, 3549, 46837, 33611, 55975, 46753>>,
       <<5122, 669, 6683, 20452, 53534, 42730, 28510, 30608, 53156, 38777, 51547>>,
       <<47351, 45061, 16566, 62926, 39130, 64381, 14362, 39660, 36693, 39771, 1048>> >>,
    << <<16835, 7771, 3925, 50311, 44010, 50131>>,
       <<32704, 60281, 15331, 17, 64006, 54422, 65032, 32140, 55490, 25882, 6749, 64189>>,
       <<16956, 1819, 35501, 15367, 32880, 3968, 37457, 29663>>,
       <<57326, 58605, 24414, 20412, 43924, 9025, 21974, 8425, 39881, 18327, 47713, 30690>>,
       <<59802, 41714, 35393, 1069, 57811, 54596, 32023, 60166, 23588, 49593, 32795, 35123>> >>,
    << <<63431, 24283, 47380, 47449, 5495, 9350, 38741, 26143, 30445>>,
       <<43058, 36221, 11344, 46255, 64324, 44165, 53212, 12475, 28105, 31545, 32055, 7656>>,
       <<42117, 29516, 27565, 19766, 16241, 11244, 46516, 53363, 23719>>,
       <<24529, 28542, 56285, 57957, 43698, 46533, 37751, 19107, 6931, 32149, 16411, 61064, 64424>>,
       <<45420, 18988, 27839, 30961, 12573, 21317, 13777, 57730>> >>,
    << <<22777, 1461, 18344, 25141, 31993, 27038>>,
       <<50389, 21525, 43358, 54296, 35113, 65401, 17871, 62424, 5555, 32882, 16, 28283, 49610>>,
       <<19608, 65404, 32781, 63456, 22433, 47520, 12856, 21329, 31554, 14254, 59896>>,
       <<24194, 22195, 49868, 38422, 4198, 22505, 1455, 17835, 17304, 57366>>,
       <<10113, 55874, 35573, 32594, 53134, 3494, 37604, 16170, 13263, 56652>> >>,
    << <<17790, 55016, 27350, 45112, 16950, 16842, 1985>>,
       <<40564, 37842, 43191, 45646, 12679, 42496, 408, 35469, 9455, 50725, 28928>>,
       <<9857, 26296, 34745, 15072, 26717, 44474, 24993, 50240>>,
       <<56139, 63570, 21503, 40440, 60837, 54726, 31410, 63756, 39240, 21094, 58861, 13632, 26482, 61536, 16895>>,
       <<20660, 49225, 186, 38583, 22070, 32070, 6231, 39563, 22739>> >>,
    << <<47188, 9118, 11947, 31280, 60442, 20323, 63542>>,
       <<30476, 56975, 9955, 7199, 32967, 37638, 44053, 31893, 200, 16134, 58099, 11013>>,
       <<13009, 23178, 18399, 13951, 445, 21477, 24520, 9687>>,
       <<60575, 39172, 44624, 10870, 55693, 49494, 61596, 9316, 33115, 6156, 30290, 14119, 25149, 36206>>,
       <<45252, 14198, 53247, 60961, 41088, 5829, 34072, 28661, 35261, 6800>> >>,
    << <<33955, 48666, 22820, 51707, 6040, 48618, 51915, 60194, 58037>>,
       <<22039, 64253, 9568, 24997, 29102, 49542, 57517, 20628, 55585>>,
       <<49901, 35628, 61457, 39946, 40778, 6261, 52243, 44387, 57667, 18402, 12876, 3013, 35755, 65400, 63371>>,
       <<4256, 45817, 61316, 52880, 31460, 19045, 62260, 43645, 2921, 21114, 439, 7622, 17619, 30998>>,
       <<3193, 37492, 57529, 53288, 45783, 61233, 51796, 1084, 22323, 3384, 57314, 21307, 50746, 6604>> >>,
    << <<26756, 37318, 1457, 4303, 23038, 637, 51709>>,
       <<5186, 34930, 14223, 9457, 47996, 64966, 8819, 39095>>,
       <<56765, 3153, 25735, 32144, 9891, 60516, 17986, 39631, 45157, 56046>>,
       <<19528, 41562, 8625, 59607, 59778, 13811, 13400, 64830, 38257, 8688, 58545, 52786, 43219, 48902, 30605>>,
       <<10928, 15263, 32312, 65375, 12755, 18369, 25492, 50596, 49283>> >>,
    << <<64810, 34540, 15662, 55620, 23972, 24987, 44054, 54282, 44192>>,
       <<48540, 14871, 47879, 56932, 55690, 49744, 12439, 57681, 41537, 45009, 8137, 51786, 45241, 10880, 37799>>,
       <<32868, 9303, 6772, 57916, 27522, 62551, 24420, 51792, 18971, 38218>>,
       <<262, 51227, 58219, 35162, 35546, 16347, 15386, 21742, 3776, 29988, 9862>>,
       <<53465, 46696, 12480, 10193, 39446, 25434, 9462, 61319, 27701, 13518>> >>,
    << <<54258, 29536, 1462, 33763, 27809, 54763, 11318>>,
       <<28821, 2053, 54971, 27720, 2488, 15566, 43695, 44791, 7774>>,
       <<6725, 47909, 989, 27136, 44667, 50830, 44884, 1311, 34050, 20036, 62848, 48251>>,
       <<32925, 7681, 26219, 6096, 19633, 21263, 117, 54444, 58234>>,
       <<43744, 25444, 8715, 61434, 14914, 4908, 62513, 27077, 16853>> >>,
    << <<44727, 25438, 37640, 34577, 39398, 33077, 28860, 56542, 18069, 54606, 13497>>,
       <<21653, 31759, 3589, 17760, 29271, 49208, 48526, 56082>>,
       <<24624, 42025, 24231, 36855, 44278, 54301, 6285, 39200, 14457, 30584, 45909, 28340, 14063>>,
       <<28135, 216, 53598, 64241, 19815, 40227, 20475, 59040, 31414, 1778, 9112, 49628>>,
       <<4990, 10006, 34789, 36560, 58148, 58211, 24253, 37428, 16078, 29334, 9170>> >>,
    << <<45808, 7605, 35451, 44074, 60091, 46604, 52913, 47090, 11575, 54418, 9431, 12701, 62167>>,
       <<37351, 26868, 50519, 56718, 32646, 21124, 57858, 15913, 31730, 21313, 54284>>,
       <<14837, 25477, 1275, 12066, 23033, 34303, 58494, 11574>>,
       <<46117, 29178, 29279, 13442, 29015, 20113, 10251, 31514, 21344>>,
       <<24217, 53710, 38735, 6577, 34306, 42337, 34109, 58516, 34701, 18453, 52639, 38255, 44818, 51438>> >>,
    << <<41484, 19885, 21042, 57453, 17464, 23133, 10020, 51811>>,
       <<20685, 47670, 12830, 13602, 33227, 51817, 59682, 43506, 27558, 50686, 21595, 57636, 56818>>,
       <<16468, 30216, 57553, 44496, 53860, 12380, 39390, 62443, 24325, 11941, 6204, 46829, 56114>>,
       <<50683, 53349, 64778, 57903, 60977, 64316, 33769, 25657, 12771, 59710, 14466, 35937, 923, 3912, 63371, 27414, 22152>>,
       <<49484, 58369, 58583, 51019, 52082, 37849, 6253, 4640, 18131, 26862, 25429, 58503, 16681>> >>,
    << <<17580, 27172, 44444, 12779, 19515, 11181>>,
       <<26256, 5777, 64845, 64380, 46824, 48806, 1510, 49903, 29184, 42359, 57740>>,
       <<25127, 43679, 46495, 17240, 53610, 22778, 19377, 41203, 46905, 10404, 8775>>,
       <<29010, 4041, 53365, 8816, 25888, 35171, 63912, 54271, 29005, 10007, 32605, 4126, 38038>>,
       <<27489, 55027, 18513, 30098, 59451, 24204, 38882, 8906, 59645, 48119>> >>,
    << <<16573, 62155, 15854, 44564, 34911, 53217, 388>>,
       <<7134, 63191, 40627, 14891, 34039, 61628, 1116, 14232, 49295, 1790, 60836>>,
       <<36999, 35167, 17273, 61204, 55923, 19120, 13023, 42855, 27055, 21917, 34017>>,
       <<38574, 65013, 38779, 5261, 44224, 27825, 63366, 28821, 54172, 59768, 61310, 20107>>,
       <<16200, 62555, 41082, 44086, 24888, 22786, 36241, 26517, 24981, 56356, 6657, 49087>> >>,
    << <<35074, 21922, 54945, 45435, 47663, 52752, 38389, 48977, 24397, 1297, 45318, 23296, 5825>>,
       <<17027, 54718, 17419, 21259, 26768, 25124, 55723, 3292, 11386>>,
       <<53297, 30212, 3049, 21679, 29992, 7173, 49849, 25974, 31937>>,
       <<45104, 37780, 40498, 33914, 43783, 14751, 1410, 37494, 40025, 2529>>,
       <<59538, 177, 12986, 33573, 38613, 46819, 48870, 14172, 10877, 44564, 45947, 23219>> >>,
    << <<17726, 54540, 37045, 39710, 30133, 16299, 62499, 51114, 53832>>,
       <<54480, 8188, 55762, 42199, 6434, 43629, 50146, 36474, 35347, 20778, 41470, 45004, 55278, 62827>>,
       <<55454, 19684, 53590, 47053, 44048, 13069, 2015, 38951, 34847, 6894, 48878, 60154, 41616, 53525>>,
       <<46330, 14113, 53290, 34425, 49090, 14175, 53272, 8442, 57311, 54117, 49557, 35327>>,
       <<47614, 60589, 34345, 53240, 44423, 40972, 65029, 51610, 44181, 2606, 5274, 29072, 31159, 33263, 30618, 10264>> >>,
    << <<59797, 2511, 13561, 2645, 57573, 790, 39986>>,
       <<64655, 33728, 62009, 49334, 47416, 41705, 24129, 32366, 57811, 49597, 59241, 60661, 26888, 30961, 11071, 11778, 10374>>,
       <<56632, 59332, 63148, 46775, 30638, 48592, 11214, 37142, 25533, 59772, 59370, 28200, 20411, 11202, 18084, 63812>>,
       <<54421, 34460, 50898, 4215, 13154, 20114, 27800, 3322, 61405, 47806, 39451>>,
       <<22654, 58732, 61470, 46830, 29977, 34145, 26645, 30591, 37556, 16179, 28774>> >>,
    << <<7598, 21452, 21137, 39161, 42546, 56185>>,
       <<15254, 30594, 36970, 1720, 30970, 30951, 25430, 6257>>,
       <<55144, 32647, 56760, 4775, 23577, 29772, 4115, 43500, 4187, 27520>>,
       <<50432, 44739, 44031, 27740, 7655, 46936, 32414, 63417, 1340, 26299, 17248, 7780, 65102>>,
       <<30629, 20880, 24290, 3529, 37140, 25286, 11461, 47691>> >>,
    << <<17924, 50069, 47370, 16626, 33291, 51883, 36748, 54597>>,
       <<44451, 40571, 21857, 44945, 36757, 29565, 14779, 46806, 58084, 3584, 12924>>,
       <<51637, 21889, 60986, 16702, 14945, 31828, 2524, 828, 26200, 15246>>,
       <<46450, 35632, 54980, 5642, 53101, 64133, 51065, 11785, 16443, 62296, 25772, 32893, 51476, 9142>>,
       <<40980, 57462, 6170, 44098, 65398, 30483, 32400, 39310, 3106, 57151>> >>,
    << <<25273, 27440, 23086, 11441, 45923, 3711>>,
       <<7677, 25002, 47903, 36855, 60821, 9588, 16227, 543, 58062, 56245>>,
       <<33201, 63121, 6071, 51589, 29967, 6468, 15358, 14647, 55218, 53882>>,
       <<23367, 50544, 18615, 34396, 41722, 19386, 42326, 59489, 30668, 40705, 23612, 10040, 35336>>,
       <<61176, 50035, 50132, 14403, 62085, 17013, 36818, 1047, 9653, 62210, 36989, 29092>> >>,
    << <<34368, 42835, 38587, 10212, 37483, 65073, 53486, 36988, 53281, 11005, 26442, 7258, 21571, 61189>>,
       <<19684, 36062, 29071, 59339, 39166, 33744, 19238, 37023, 28183, 20811, 409>>,
       <<35078, 13792, 43155, 50804, 8531, 17120, 60648, 26916, 51236, 44182, 4036>>,
       <<41578, 18199, 36827, 54631, 58515, 26892, 59267, 28328, 35082, 47365, 20797, 59279>>,
       <<4499, 26622, 57655, 25358, 16451, 7830, 25466, 22635, 65218>> >>,
    << <<30381, 63532, 32329, 26493, 49853, 11699, 51843>>,
       <<9551, 33978, 33244, 30300, 1785, 27688, 40118, 34569>>,
       <<5604, 28489, 28899, 22862, 37718, 37973, 11788, 40791>>,
       <<823, 38136, 49402, 25072, 50508, 2811, 65076, 27472, 30493, 22105, 57869, 45356>>,
       <<13660, 47183, 48995, 16596, 36546, 40986, 37735, 25945, 23343, 4681, 11142, 29267>> >>
  >>

SaltedMd52 ==
  <<
    "3deabab4",
    "95972f8c",
    "db61547c",
    "b25e1f6f",
    "196f6e3c",
    "8d49e639",
    "078274ae",
    "7a145d68",
    "67f2c3f5",
    "b4ea3a27",
    "bfc5a8cf",
    "df6512ad",
    "21962633",
    "db99988d",
    "bba79cdc",
    "fccaed18",
    "0a964aa1",
    "974b9a33",
    "c629b8ff",
    "a75752e4",
    "51795c3d",
    "09431d3b",
    "bc6e771b",
    "9eeaeed9",
    "cde1b380",
    "c42f63bc",
    "5b0ae434",
    "c7263bc5",
    "92ee004d"
  >>

SaltedStream(salt) == IF salt = 1 THEN SaltedStream1 ELSE SaltedStream2

SaltedMd5(salt) == IF salt = 1 THEN SaltedMd51 ELSE SaltedMd52

mt_stream(seed) ==
  IF seed.tag = ""
    THEN PlainStream[seed.n \div SeedMultiplier + 1]
    ELSE SaltedStream(seed.salt)[seed.n \div SeedMultiplier + 1][TagIndex(seed.tag)]

\* hashlib.md5(str(seed).encode()).hexdigest()[:8]
md5_prefix(seed) ==
  IF seed.tag = ""
    THEN PlainMd5[seed.n \div SeedMultiplier + 1]
    ELSE SaltedMd5(seed.salt)[seed.n \div SeedMultiplier + 1]

\* random.seed(seed) on the generator in state rng: whatever rng is, the
\* generator restarts the stream of that seed
random_seed(rng, seed) == [seed |-> seed, pos |-> 0]

\* the state of the generator of a fresh interpreter (seeded from the OS);
\* every generation reseeds before it draws
UnseededRng == [seed |-> IntSeed(0), pos |-> 0]

RECURSIVE bit_length(_)
bit_length(n) == IF n = 0 THEN 0 ELSE 1 + bit_length(n \div 2)

\* getrandbits(k), k <= 16: the top k bits of the next 32-bit word
getrandbits(rng, k) ==
  [val |-> mt_stream(rng.seed)[rng.pos + 1] \div (2 ^ (16 - k)),
   rng |-> [rng EXCEPT !.pos = @ + 1]]

\* Random._randbelow_with_getrandbits: draw bit_length(n) bits until below n
RECURSIVE randbelow_retry(_, _, _)

\* while r >= n: r = getrandbits(k)
accept_or_retry(d, n, k) == IF d.val < n THEN d ELSE randbelow_retry(d.rng, n, k)

randbelow_retry(rng, n, k) == accept_or_retry(getrandbits(rng, k), n, k)

randbelow(rng, n) == randbelow_retry(rng, n, bit_length(n))

\* random.randint(a, b) = a + _randbelow(b - a + 1)
shifted(d, a) == [val |-> a + d.val, rng |-> d.rng]

randint(rng, a, b) == shifted(randbelow(rng, b - a + 1), a)

\* random.choice(seq) = seq[_randbelow(len(seq))]
element(d, seq) == [val |-> seq[d.val + 1], rng |-> d.rng]

choice(rng, seq) == element(randbelow(rng, Len(seq)), seq)

\* random.sample(population, k), the pool branch (len(population) <= 21):
\* result[i] = pool[j]; pool[j] = pool[n - i - 1]
RECURSIVE sample_loop(_, _, _, _, _)
\* j = _randbelow(n - i) was drawn as d
sample_pick(d, pool, i, k, result) ==
  sample_loop(d.rng, [pool EXCEPT ![d.val + 1] = pool[Len(pool) - i]], i + 1, k,
              Append(result, pool[d.val + 1]))

sample_loop(rng, pool, i, k, result) ==
  IF i = k
    THEN [val |-> result, rng |-> rng]
    ELSE sample_pick(randbelow(rng, Len(pool) - i), pool, i, k, result)

sample(rng, population, k) == sample_loop(rng, population, 0, k, <<>>)

\* str(int) inside an f-string
S(n) == ToString(n)

(***************************************************************************)
(* UniqueQuestionGenerator.  Each strategy returns its 8 questions and the *)
(* state it leaves the process-wide generator in.  The f-strings of a      *)
(* strategy are the operator <strategy>_list of the values drawn.          *)
(***************************************************************************)
historical_list(year) ==
  << "What major events occurred in the year " \o S(year) \o "?",
     "Who were the influential leaders during " \o S(year) \o "?",
     "What was the state of technology in " \o S(year) \o "?",
     "Describe the political climate of " \o S(year) \o ".",
     "What were the major conflicts or peace treaties around " \o S(year) \o "?",
     "How did people communicate in " \o S(year) \o "?",
     "What was daily life like for common people in " \o S(year) \o "?",
     "What scientific discoveries were made around " \o S(year) \o "?" >>

historical_questions(rng, seed) ==
  LET year == randint(random_seed(rng, seed), 1000, 2023)
  IN [questions |-> historical_list(year.val), rng |-> year.rng]

mathematical_list(a, b, c) ==
  << "What is " \o S(a) \o " multiplied by " \o S(b) \o "?",
     "If you divide the previous result by " \o S(c) \o ", what do you get?",
     "What are the prime factors of " \o S(a) \o "?",
     "Is " \o S(b) \o " a perfect square? If not, what's the nearest one?",
     "Calculate " \o S(a) \o " to the power of " \o S((c % 5) + 2) \o ".",
     "What is the greatest common divisor of " \o S(a) \o " and " \o S(b) \o "?",
     "Convert " \o S(a) \o " to base-" \o S((c % 7) + 2) \o " notation.",
     "How many ways can you partition " \o S(c) \o " into positive integers?" >>

mathematical_questions(rng, seed) ==
  LET a == randint(random_seed(rng, seed), 100, 9999)
      b == randint(a.rng, 100, 9999)
      c == randint(b.rng, 2, 50)
  IN [questions |-> mathematical_list(a.val, b.val, c.val), rng |-> c.rng]

\* "Sao Paulo" stands for the source's "São Paulo" (ASCII spelling)
Cities ==
  <<"Tokyo", "Delhi", "Shanghai", "Sao Paulo", "Mexico City", "Cairo",
    "Mumbai", "Beijing", "Dhaka", "Osaka", "Karachi", "Istanbul",
    "Buenos Aires", "Kolkata", "Lagos", "Manila", "Tianjin", "Rio">>

Countries ==
  <<"Brazil", "Russia", "India", "China", "South Africa", "Mexico",
    "Indonesia", "Turkey", "Saudi Arabia", "Argentina", "Egypt",
    "Nigeria", "Japan", "Germany", "France", "Italy", "Canada">>

geographical_list(city, country, distance) ==
  << "What is the population of " \o city \o "?",
     "What are the neighboring countries of " \o country \o "?",
     "What is the main river flowing through or near " \o city \o "?",
     "If you travel " \o S(distance) \o "km east from " \o city \o ", where might you be?",
     "What is the climate type in " \o country \o "?",
     "What are the major exports of " \o country \o "?",
     "What language is primarily spoken in " \o city \o "?",
     "What is the time zone of " \o city \o "?" >>

geographical_questions(rng, seed) ==
  LET city == choice(random_seed(rng, seed), Cities)
      country == choice(city.rng, Countries)
      distance == randint(country.rng, 500, 5000)
  IN [questions |-> geographical_list(city.val, country.val, distance.val),
      rng |-> distance.rng]

Objects == <<"cars", "trees", "buildings", "phones", "books", "computers">>

Properties == <<"invisible", "magnetic", "telepathic", "indestructible", "sentient">>

Numbers == <<10, 50, 100, 1000, 10000>>

hypothetical_list(obj, prop, num, percent) ==
  << "What would happen if all " \o obj \o " suddenly became " \o prop \o "?",
     "How would society change if " \o S(percent) \o "% of people could read minds?",
     "Design a city that could accommodate " \o S(num) \o " million people in 1 square km.",
     "What if gravity was " \o S(percent) \o "% stronger?",
     "How would communication work if sound didn't exist?",
     "What if " \o obj \o " could only last for 24 hours before disappearing?",
     "Describe an economy where " \o obj \o " are the primary currency.",
     "What safety measures would we need if everyone could fly?" >>

hypothetical_questions(rng, seed) ==
  LET obj == choice(random_seed(rng, seed), Objects)
      prop == choice(obj.rng, Properties)
      num == choice(prop.rng, Numbers)
      percent == randint(num.rng, 10, 90)
  IN [questions |-> hypothetical_list(obj.val, prop.val, num.val, percent.val),
      rng |-> percent.rng]

\* "O(n^2)" stands for the source's "O(n²)" (ASCII spelling)
Complexities == <<"O(n)", "O(n^2)", "O(log n)", "O(n log n)">>

\* complexity is drawn and not used in a question
technical_list(array_size, port, hash_input) ==
  << "What's the best sorting algorithm for " \o S(array_size) \o " nearly-sorted integers?",
     "How would you design a cache for " \o S(array_size) \o " frequently accessed items?",
     "Explain the trade-offs of using a hash table with " \o S(array_size) \o " buckets.",
     "What happens when you try to connect to port " \o S(port) \o "?",
     "Design a URL shortener that generates codes like '" \o hash_input \o "'.",
     "How would you find duplicates in an array of " \o S(array_size) \o " elements?",
     "What's the space complexity of storing " \o S(array_size) \o " items in a binary tree?",
     "How would you implement rate limiting for " \o S(array_size) \o " requests per second?" >>

technical_questions(rng, seed) ==
  LET array_size == randint(random_seed(rng, seed), 10, 1000)
      complexity == choice(array_size.rng, Complexities)
      port == randint(complexity.rng, 3000, 9999)
  IN [questions |-> technical_list(array_size.val, port.val, md5_prefix(seed)),
      rng |-> port.rng]

RECURSIVE generate_by_strategy(_, _, _, _)

\* random.sample(strategy_questions, 2), drawn after the strategy's own draws
sample_of(g) == sample(g.rng, g.questions, MixedSampleSize)

\* the loop of mixed_questions from its k-th strategy on; rng is the state of
\* the generator and questions the list built so far
RECURSIVE mixed_loop(_, _, _, _, _)
mixed_loop(seed, salt, k, rng, questions) ==
  IF k > Len(SubStrategies)
    THEN [questions |-> questions, rng |-> rng]
    ELSE LET s == sample_of(generate_by_strategy(
                              rng, SubStrategies[k],
                              SeedPlusHash(seed, salt, SubStrategies[k]), salt))
         IN mixed_loop(seed, salt, k + 1, s.rng, questions \o s.val)

\* questions[:8]
first_questions(g, n) == [questions |-> SubSeq(g.questions, 1, n), rng |-> g.rng]

mixed_questions(rng, seed, salt) ==
  first_questions(mixed_loop(seed, salt, 1, random_seed(rng, seed), <<>>), MixedQuestionCount)

\* rng: the state of the process-wide generator at the call;
\* salt: the str-hash salt of the process that runs the generator
generate_by_strategy(rng, strategy, seed, salt) ==
  IF strategy = "historical" THEN historical_questions(rng, seed)
  ELSE IF strategy = "mathematical" THEN mathematical_questions(rng, seed)
  ELSE IF strategy = "geographical" THEN geographical_questions(rng, seed)
  ELSE IF strategy = "hypothetical" THEN hypothetical_questions(rng, seed)
  ELSE IF strategy = "technical" THEN technical_questions(rng, seed)
  ELSE mixed_questions(rng, seed, salt)

\* Fault variant of client_questions: only the first client of the process
\* seeds with its own seed, the later ones restart the seed they find
client_questions_last_seed(rng, strategy, client_id, salt) ==
  first_questions(generate_by_strategy(
                    rng, strategy,
                    IF rng = UnseededRng THEN IntSeed(client_id * SeedMultiplier)
                                         ELSE IntSeed(rng.seed.n),
                    salt),
                  QuestionsPerConversation)

\* run_client: seed = client_id * 1337; generate_by_strategy(...)[:5]
client_questions(rng, strategy, client_id, salt) ==
  first_questions(generate_by_strategy(rng, strategy, IntSeed(client_id * SeedMultiplier),
                                       salt),
                  QuestionsPerConversation)

(***************************************************************************)
(* State.                                                                  *)
(*                                                                         *)
(* num_clients, max_concurrent, question_strategy  arguments of            *)
(*                        run_load_test                                    *)
(* hash_salt              str-hash salt of the running process             *)
(* endpoint_usage         usage metadata of the endpoint's replies:        *)
(*                        <<>> (no usage object) or <<total_tokens>>       *)
(* rng                    state of the process-wide random generator       *)
(* sem_value              free units of the asyncio.Semaphore              *)
(* pc[c]                  where client task c stands:                      *)
(*                          "acquire"   at async with semaphore            *)
(*                          "post"      awaiting session.post              *)
(*                          "sleep"     awaiting asyncio.sleep(0.1)        *)
(*                          "returned"  finished with its result           *)
(*                          "raised"    finished with an exception         *)
(*                          "cancelled" cancelled at an await              *)
(* questions[c], question_index[c], messages[c], conversation_results[c]   *)
(*                        locals of run_client / test_conversation         *)
(* endpoint_calls[c]      number of session.post calls of c that are over  *)
(* generation_failed      clients whose generate_by_strategy call raised   *)
(* results                self.results                                     *)
(* phase                  run_load_test: "gathering" (awaiting gather),    *)
(*                        "collected" (gather returned), "reported"        *)
(*                        (analyze_results returned), "raised" (gather     *)
(*                        raised), "idle" (no run: GenSpec)                *)
(* stats                  the report returned by analyze_results           *)
(* gen_strategy, gen_job, gen_out   GenSpec: the strategy, the two jobs    *)
(*                        [salt, client_id] and their generated questions  *)
(***************************************************************************)
VARIABLES num_clients, max_concurrent, question_strategy, hash_salt, endpoint_usage,
          rng, sem_value, pc, questions, question_index, messages,
          conversation_results, endpoint_calls, generation_failed, results, phase,
          stats,
          gen_strategy, gen_job, gen_out

run_vars == <<num_clients, max_concurrent, question_strategy, hash_salt, endpoint_usage,
              rng, sem_value, pc, questions, question_index, messages,
              conversation_results, endpoint_calls, generation_failed, results, phase,
              stats>>

gen_vars == <<gen_strategy, gen_job, gen_out>>

vars == <<run_vars, gen_vars>>

Clients == 0 .. (num_clients - 1)

\* The runs explored: the strategy, the hash salt of the process and the usage
\* metadata of the endpoint.  None of them bears on the order of the steps; each
\* value occurs in one configuration ("mixed" is the default strategy).
RunConfigs ==
  {[question_strategy |-> "mathematical", hash_salt |-> 1, endpoint_usage |-> <<20>>],
   [question_strategy |-> "mixed", hash_salt |-> 2, endpoint_usage |-> <<>>]}

\* every tag generate_by_strategy distinguishes; "unrecognized" takes the else branch
Strategies ==
  {"historical", "mathematical", "geographical", "hypothetical", "technical",
   "mixed", "unrecognized"}

(***************************************************************************)
(* The endpoint (external).  One exchange ends in one of:                  *)
(*   session.post raises (transport error);                                *)
(*   a response with a status other than 200;                              *)
(*   status 200 with a body:  "valid"       choices and usage as expected  *)
(*                            "no_choices"  data['choices'] raises         *)
(*                            "null_usage"  choices fine, data['usage'] is *)
(*                                          null: .get on None raises      *)
(* Latency is in milliseconds.                                             *)
(***************************************************************************)
Latencies == {50}

ReplyTexts == {"reply"}

FailureStatuses == {500}

Durations == {1, 2}

EndpointResults ==
  {[exception |-> "ClientConnectionError", status |-> 0, body |-> ""]}
    \cup {[exception |-> "", status |-> s, body |-> ""] : s \in FailureStatuses}
    \cup {[exception |-> "", status |-> StatusOK, body |-> b] :
            b \in {"valid", "no_choices", "null_usage"}}

(***************************************************************************)
(* asyncio.Semaphore                                                       *)
(***************************************************************************)
\* Fault variant of sem_locked: a gate that admits one task too many
sem_locked_off_by_one(value) == value < 0

\* Semaphore.locked(): acquire suspends the task while no unit is free
sem_locked(value) == value = 0

\* Semaphore.acquire() returning
sem_acquire(value) == value - 1

\* Fault variant of sem_release: the unit is not given back
sem_release_lost(value) == value

\* Semaphore.release(), on leaving "async with semaphore" by return or exception
sem_release(value) == value + 1

(***************************************************************************)
(* test_conversation                                                       *)
(***************************************************************************)
\* Fault variant of success_turn: the 0-based loop index as question number
success_turn_zero_based(i, latency, tokens) ==
  [question_num |-> i, latency |-> latency, tokens |-> tokens, success |-> TRUE]

success_turn(i, latency, tokens) ==
  [question_num |-> i + 1, latency |-> latency, tokens |-> tokens, success |-> TRUE]

\* Fault variant of failed_turn: the 0-based loop index as question number
failed_turn_zero_based(i, latency, error) ==
  [question_num |-> i, latency |-> latency, success |-> FALSE, error |-> error]

failed_turn(i, latency, error) ==
  [question_num |-> i + 1, latency |-> latency, success |-> FALSE, error |-> error]

\* data.get('usage', {}).get('total_tokens', 0)
total_tokens(usage) == IF usage = <<>> THEN 0 ELSE usage[1]

\* Fault variant of except_Exception: a handler for transport errors only
except_ClientError_only(e) == e = "ClientConnectionError"

\* except Exception: the exceptions raised inside the try that the handler catches
except_Exception(e) ==
  e \in {"ClientConnectionError", "KeyError", "AttributeError", "RuntimeError"}

\* str(e) of the caught exception
error_text(e) ==
  IF e = "KeyError" THEN "'choices'"
  ELSE IF e = "AttributeError" THEN "'NoneType' object has no attribute 'get'"
  ELSE IF e = "RuntimeError" THEN "Session is closed"
  ELSE "Cannot connect to host"

\* The exception the body of the try raises on endpoint result r ("" if none)
raised_in_try(r) ==
  IF r.exception # "" THEN r.exception
  ELSE IF r.status = StatusOK /\ r.body = "no_choices" THEN "KeyError"
  ELSE IF r.status = StatusOK /\ r.body = "null_usage" THEN "AttributeError"
  ELSE ""

\* messages.append(assistant) is reached: status 200 and data['choices'][0]
\* ['message']['content'] evaluated
assistant_appended(r) ==
  r.exception = "" /\ r.status = StatusOK /\ r.body \in {"valid", "null_usage"}

\* Fault variant of continues_after: the break statements are missing
continues_after_failure(turn) == TRUE

\* The loop goes on to asyncio.sleep and the next question after this Turn;
\* otherwise one of the two break statements ends it
continues_after(turn) == turn.success

\* The Turn test_conversation appends for endpoint result r at loop index i
turn_for(i, r, latency, usage) ==
  IF raised_in_try(r) # "" THEN failed_turn(i, latency, error_text(raised_in_try(r)))
  ELSE IF r.status = StatusOK THEN success_turn(i, latency, total_tokens(usage))
  ELSE failed_turn(i, latency, "Status " \o S(r.status))

\* Fault variant of has_question: the loop stops before the last question
has_question_but_last(qs, i) == i + 1 < Len(qs)

\* for i, question in enumerate(questions): the next question exists
has_question(qs, i) == i < Len(qs)

\* Fault variant of conversation_result: client identifiers counted from 1
conversation_result_one_based(client_id, turns) ==
  [client_id |-> client_id + 1, results |-> turns]

\* what test_conversation returns
conversation_result(client_id, turns) == [client_id |-> client_id, results |-> turns]

\* tasks = [run_client(session, i) for i in range(n)]: gather returns the
\* results in the order of its arguments
gather_order(n) == [k \in 1..n |-> k - 1]

\* Fault variant of gather_done: the join returns with the first finished task
gather_first_completed == \E c \in Clients : pc[c] = "returned"

\* asyncio.gather has all its results
gather_done == \A c \in Clients : pc[c] = "returned"

\* the aiohttp session is closed once run_load_test left its "async with"
session_closed == phase # "gathering"

\* The exchange of loop iteration i ends with endpoint result r: the new
\* position and locals of the task; calls counts the session.post calls that
\* ended in the step.  An exception the handler does not catch
\* leaves test_conversation and run_client.
finish_exchange(i, msgs, crs, r, latency, text, usage) ==
  LET e == raised_in_try(r)
      msgs2 == IF assistant_appended(r)
                 THEN Append(msgs, [role |-> "assistant", content |-> text])
                 ELSE msgs
      turn == turn_for(i, r, latency, usage)
  IN IF e # "" /\ ~except_Exception(e)
       THEN [pc |-> "raised", question_index |-> i, messages |-> msgs2,
             conversation_results |-> crs, calls |-> 1]
       ELSE [pc |-> IF continues_after(turn) THEN "sleep" ELSE "returned",
             question_index |-> i, messages |-> msgs2,
             conversation_results |-> Append(crs, turn), calls |-> 1]

\* session.post on a closed session raises RuntimeError before it suspends
ClosedSessionResult == [exception |-> "RuntimeError", status |-> 0, body |-> ""]

\* The loop of test_conversation arrives at index i: it returns when the
\* questions are used up, else appends the user message and posts
iterate(i, qs, msgs, crs, closed, latency, text, usage) ==
  IF ~has_question(qs, i)
    THEN [pc |-> "returned", question_index |-> i, messages |-> msgs,
          conversation_results |-> crs, calls |-> 0]
    ELSE LET msgs2 == Append(msgs, [role |-> "user", content |-> qs[i + 1]])
         IN IF closed
              THEN finish_exchange(i, msgs2, crs, ClosedSessionResult, latency, text, usage)
              ELSE [pc |-> "post", question_index |-> i, messages |-> msgs2,
                    conversation_results |-> crs, calls |-> 0]

\* the task holds a unit of the semaphore at these positions
holds_unit(position) == position \in {"post", "sleep"}

\* sem_value after a step of a task that held a unit and now stands at position
sem_after(value, position) == IF holds_unit(position) THEN value ELSE sem_release(value)

SetLocals(c, t) ==
  /\ pc' = [pc EXCEPT ![c] = t.pc]
  /\ question_index' = [question_index EXCEPT ![c] = t.question_index]
  /\ messages' = [messages EXCEPT ![c] = t.messages]
  /\ conversation_results' = [conversation_results EXCEPT ![c] = t.conversation_results]
  /\ endpoint_calls' = [endpoint_calls EXCEPT ![c] = @ + t.calls]

\* the task of c has moved to t; value is sem_value with its unit taken
Moved(c, value, t) ==
  /\ SetLocals(c, t)
  /\ sem_value' = sem_after(value, t.pc)

UnchangedRun ==
  UNCHANGED <<num_clients, max_concurrent, question_strategy, hash_salt,
              endpoint_usage, gen_vars>>

\* run_client after the unit is acquired and g was generated:
\* test_conversation(session, c, g.questions) up to its first await
Generated(c, g, latency, text) ==
  /\ questions' = [questions EXCEPT ![c] = g.questions]
  /\ rng' = g.rng
  /\ Moved(c, sem_acquire(sem_value),
           iterate(0, g.questions, <<>>, <<>>, session_closed, latency, text,
                   endpoint_usage))

(***************************************************************************)
(* run_client(session, c) from "async with semaphore" to its first await:  *)
(* the unit is acquired, the questions are generated (or the generator     *)
(* raises, and the exception leaves run_client through the semaphore's     *)
(* exit), and test_conversation runs up to its first session.post.         *)
(***************************************************************************)
Acquire(c) ==
  /\ pc[c] = "acquire"
  /\ ~sem_locked(sem_value)
  /\ \/ /\ pc' = [pc EXCEPT ![c] = "raised"]
        /\ generation_failed' = generation_failed \cup {c}
        /\ sem_value' = sem_release(sem_acquire(sem_value))
        /\ UNCHANGED <<rng, questions, question_index, messages, conversation_results,
                       endpoint_calls>>
     \/ \E latency \in Latencies, text \in ReplyTexts :
          /\ Generated(c, client_questions(rng, question_strategy, c, hash_salt), latency, text)
          /\ UNCHANGED generation_failed
  /\ UNCHANGED <<results, phase, stats>>
  /\ UnchangedRun

(***************************************************************************)
(* The exchange of client c ends: test_conversation resumes after          *)
(* session.post (and response.json()), records the Turn and either goes to *)
(* asyncio.sleep or breaks, returns and releases the semaphore.            *)
(***************************************************************************)
Reply(c) ==
  /\ pc[c] = "post"
  /\ \E r \in EndpointResults, latency \in Latencies, text \in ReplyTexts :
       Moved(c, sem_value,
             finish_exchange(question_index[c], messages[c], conversation_results[c],
                             r, latency, text, endpoint_usage))
  /\ UNCHANGED <<rng, questions, generation_failed, results, phase, stats>>
  /\ UnchangedRun

(***************************************************************************)
(* asyncio.sleep(0.1) of client c is over: the loop takes the next         *)
(* question, or ends, and then test_conversation returns and run_client    *)
(* releases the semaphore.                                                 *)
(***************************************************************************)
Wake(c) ==
  /\ pc[c] = "sleep"
  /\ \E latency \in Latencies, text \in ReplyTexts :
       Moved(c, sem_value,
             iterate(question_index[c] + 1, questions[c], messages[c],
                     conversation_results[c], session_closed, latency, text,
                     endpoint_usage))
  /\ UNCHANGED <<rng, questions, generation_failed, results, phase, stats>>
  /\ UnchangedRun

(***************************************************************************)
(* self.results = await asyncio.gather: every task has returned;   *)
(* the results are in the order of the tasks.  The session is closed.      *)
(***************************************************************************)
GatherReturn ==
  /\ phase = "gathering"
  /\ gather_done
  /\ results' = [k \in 1..num_clients |->
                   conversation_result(gather_order(num_clients)[k],
                                       conversation_results[gather_order(num_clients)[k]])]
  /\ phase' = "collected"
  /\ UNCHANGED <<rng, sem_value, pc, questions, question_index, messages,
                 conversation_results, endpoint_calls, generation_failed, stats>>
  /\ UnchangedRun

(***************************************************************************)
(* gather (return_exceptions=False) hands the first exception of a task to *)
(* its awaiter: run_load_test leaves the session block and raises.  The    *)
(* other tasks are not cancelled by gather.                                *)
(***************************************************************************)
GatherRaise ==
  /\ phase = "gathering"
  /\ \E c \in Clients : pc[c] = "raised"
  /\ phase' = "raised"
  /\ UNCHANGED <<rng, sem_value, pc, questions, question_index, messages,
                 conversation_results, endpoint_calls, generation_failed, results,
                 stats>>
  /\ UnchangedRun

(***************************************************************************)
(* asyncio.run(example_run()) ends with the exception of run_load_test and *)
(* cancels the tasks still pending: CancelledError is raised at the await  *)
(* the task is suspended in; it is no Exception, so the handler of         *)
(* test_conversation lets it pass and the semaphore's exit releases.       *)
(***************************************************************************)
Cancel(c) ==
  /\ phase = "raised"
  /\ pc[c] \in {"acquire", "post", "sleep"}
  /\ pc' = [pc EXCEPT ![c] = "cancelled"]
  /\ sem_value' = IF holds_unit(pc[c]) THEN sem_release(sem_value) ELSE sem_value
  /\ UNCHANGED <<rng, questions, question_index, messages, conversation_results,
                 endpoint_calls, generation_failed, results, phase, stats>>
  /\ UnchangedRun

(***************************************************************************)
(* analyze_results                                                         *)
(***************************************************************************)
\* all_requests: the results lists of the client results, in order
RECURSIVE all_requests(_)
all_requests(rs) ==
  IF rs = <<>> THEN <<>> ELSE Head(rs).results \o all_requests(Tail(rs))

\* r.get('success', False)
get_success(r) == "success" \in DOMAIN r /\ r.success

is_successful(r) == get_success(r)

\* Fault variant of is_failed: only responses with an error status count as failed
is_failed_status_only(r) == ~get_success(r) /\ r.error = "Status 500"

is_failed(r) == ~get_success(r)

\* the halves of a sequence of two or more elements (the recursions below
\* split in halves, which keeps them shallow)
front(s) == SubSeq(s, 1, Len(s) \div 2)

back(s) == SubSeq(s, (Len(s) \div 2) + 1, Len(s))

\* the sequence with the elements f[1], f[2], ... as a list value
list(f) == f \o <<>>

\* place of s[k] in the ascending order of s: behind the elements below it
\* and the equal ones before it (list.sort is stable)
place(s, k) ==
  1 + Cardinality({j \in 1..Len(s) : s[j] < s[k] \/ (s[j] = s[k] /\ j < k)})

places(s) == list([k \in 1..Len(s) |-> place(s, k)])

\* the list whose element at places[k] is s[k]
placed(s, at) == list([i \in 1..Len(s) |-> s[CHOOSE k \in 1..Len(s) : at[k] = i]])

\* latencies.sort()
sorted(s) == placed(s, places(s))

RECURSIVE sum(_)
sum(s) ==
  IF s = <<>> THEN 0
  ELSE IF Len(s) = 1 THEN s[1]
  ELSE sum(front(s)) + sum(back(s))

smaller(x, y) == IF y < x THEN y ELSE x

larger(x, y) == IF y > x THEN y ELSE x

RECURSIVE min_of(_)
min_of(s) == IF Len(s) = 1 THEN s[1] ELSE smaller(min_of(front(s)), min_of(back(s)))

RECURSIVE max_of(_)
max_of(s) == IF Len(s) = 1 THEN s[1] ELSE larger(max_of(front(s)), max_of(back(s)))

\* n / d rounded to the nearest integer, ties to even (d > 0, n >= 0)
round_ratio(n, d) ==
  LET q == n \div d
      r == n % d
  IN IF 2 * r > d THEN q + 1
     ELSE IF 2 * r = d THEN q + (q % 2)
     ELSE q

\* three decimal digits
digits3(n) == S((n \div 100) % 10) \o S((n \div 10) % 10) \o S(n % 10)

\* f"{x:.3f}s" of x = ms / 1000 seconds
fmt_seconds(ms) == S(ms \div 1000) \o "." \o digits3(ms % 1000) \o "s"

\* f"{n/d*100:.1f}%"
fmt_percent(n, d) ==
  LET tenths == round_ratio(1000 * n, d)
  IN S(tenths \div 10) \o "." \o S(tenths % 10) \o "%"

\* len(latencies)//2, int(len(latencies)*0.95), int(len(latencies)*0.99)
\* Fault variant of p50_index: the lower median
p50_index_lower(n) == (n - 1) \div 2

p50_index(n) == n \div 2

p95_index(n) == (95 * n) \div 100

p99_index(n) == (99 * n) \div 100

\* p99 is computed if len(latencies) > 100
P99MinSamples == 100

\* Fault variant of p99_reported: the threshold itself counts as enough
p99_reported_from_threshold(n) == n >= P99MinSamples

\* ... if len(latencies) > 100 else "N/A"
p99_reported(n) == n > P99MinSamples

latency_stats(latencies) ==
  LET n == Len(latencies)
  IN [min |-> fmt_seconds(min_of(latencies)),
      max |-> fmt_seconds(max_of(latencies)),
      avg |-> fmt_seconds(round_ratio(sum(latencies), n)),
      p50 |-> fmt_seconds(latencies[p50_index(n) + 1]),
      p95 |-> fmt_seconds(latencies[p95_index(n) + 1]),
      p99 |-> IF p99_reported(n) THEN fmt_seconds(latencies[p99_index(n) + 1]) ELSE "N/A"]

\* any('tokens' in r for r in successful)
any_tokens(successful) == \E k \in 1..Len(successful) : "tokens" \in DOMAIN successful[k]

\* r.get('tokens', 0)
get_tokens(r) == IF "tokens" \in DOMAIN r THEN r.tokens ELSE 0

\* sum(r.get('tokens', 0) for r in successful)
sum_tokens(s) == sum([k \in 1..Len(s) |-> get_tokens(s[k])])

\* Fault variant of no_success_stats: the no-data report built like the other
\* one, with counts and an empty latency block
no_success_stats_with_latency(duration, failed) ==
  [error |-> "No successful requests",
   duration_seconds |-> duration,
   failed_requests |-> Len(failed),
   successful_requests |-> 0,
   latency_stats |-> [min |-> "N/A", max |-> "N/A", avg |-> "N/A"]]

\* the report of the else branch: no successful request
no_success_stats(duration, failed) ==
  [error |-> "No successful requests",
   duration_seconds |-> duration,
   failed_requests |-> Len(failed)]

\* throughput_rps = len(all_requests) / duration, kept as the fraction
analyze_results(rs, duration) ==
  LET all == all_requests(rs)
      successful == SelectSeq(all, is_successful)
      failed == SelectSeq(all, is_failed)
      latencies == sorted([k \in 1..Len(successful) |-> successful[k].latency])
      base == [duration_seconds |-> duration,
               total_clients |-> Len(rs),
               total_requests |-> Len(all),
               successful_requests |-> Len(successful),
               failed_requests |-> Len(failed),
               success_rate |-> fmt_percent(Len(successful), Len(all)),
               throughput_rps |-> <<Len(all), duration>>,
               latency_stats |-> latency_stats(latencies)]
      total == sum_tokens(successful)
  IN IF successful # <<>>
       THEN IF any_tokens(successful)
              THEN [f \in DOMAIN base \cup {"token_stats"} |->
                      IF f = "token_stats"
                        THEN [total_tokens |-> total,
                              avg_tokens_per_request |-> total \div Len(successful)]
                        ELSE base[f]]
              ELSE base
       ELSE no_success_stats(duration, failed)

\* no report yet
NoReport == <<>>

(***************************************************************************)
(* run_load_test after gather: duration is measured and analyze_results    *)
(* builds the report.                                                      *)
(***************************************************************************)
AnalyzeResults ==
  /\ phase = "collected"
  /\ \E duration \in Durations : stats' = analyze_results(results, duration)
  /\ phase' = "reported"
  /\ UNCHANGED <<rng, sem_value, pc, questions, question_index, messages,
                 conversation_results, endpoint_calls, generation_failed, results>>
  /\ UnchangedRun

(***************************************************************************)
(* One call of run_load_test.                                              *)
(***************************************************************************)
GenIdle ==
  /\ gen_strategy = ""
  /\ gen_job = <<>>
  /\ gen_out = <<>>

Init ==
  /\ num_clients \in 1..MaxClients
  /\ max_concurrent \in 1..MaxConcurrent
  /\ \E cfg \in RunConfigs :
       /\ question_strategy = cfg.question_strategy
       /\ hash_salt = cfg.hash_salt
       /\ endpoint_usage = cfg.endpoint_usage
  /\ rng = UnseededRng
  /\ sem_value = max_concurrent
  /\ pc = [c \in Clients |-> "acquire"]
  /\ questions = [c \in Clients |-> <<>>]
  /\ question_index = [c \in Clients |-> 0]
  /\ messages = [c \in Clients |-> <<>>]
  /\ conversation_results = [c \in Clients |-> <<>>]
  /\ endpoint_calls = [c \in Clients |-> 0]
  /\ generation_failed = {}
  /\ results = <<>>
  /\ phase = "gathering"
  /\ stats = NoReport
  /\ GenIdle

Next ==
  \/ \E c \in Clients : Acquire(c)
  \/ \E c \in Clients : Reply(c)
  \/ \E c \in Clients : Wake(c)
  \/ GatherReturn
  \/ GatherRaise
  \/ \E c \in Clients : Cancel(c)
  \/ AnalyzeResults

Spec == Init /\ [][Next]_vars

(***************************************************************************)
(* GenSpec: the question generator applied to two jobs.  A job is a client *)
(* index and the hash salt of the process (the run) it is generated in;    *)
(* Generate(k) is what run_client does for it.                             *)
(***************************************************************************)
RunIdle ==
  /\ num_clients = 0
  /\ max_concurrent = 0
  /\ question_strategy = ""
  /\ hash_salt = 0
  /\ endpoint_usage = <<>>
  /\ rng = UnseededRng
  /\ sem_value = 0
  /\ pc = <<>>
  /\ questions = <<>>
  /\ question_index = <<>>
  /\ messages = <<>>
  /\ conversation_results = <<>>
  /\ endpoint_calls = <<>>
  /\ generation_failed = {}
  /\ results = <<>>
  /\ phase = "idle"
  /\ stats = NoReport

GenInit ==
  /\ gen_strategy \in Strategies
  /\ gen_job \in {<<[salt |-> s1, client_id |-> i], [salt |-> s2, client_id |-> j]>> :
                    s1 \in HashSalts, s2 \in HashSalts, i \in 0..MaxIndex, j \in 0..MaxIndex}
  /\ gen_job[1].salt <= gen_job[2].salt
  /\ gen_job[1].client_id <= gen_job[2].client_id
  /\ gen_out = <<<<>>, <<>>>>
  /\ RunIdle

Generate(k) ==
  /\ gen_out[k] = <<>>
  /\ gen_out' = [gen_out EXCEPT ![k] =
                   client_questions(rng, gen_strategy, gen_job[k].client_id,
                                    gen_job[k].salt).questions]
  /\ UNCHANGED <<gen_strategy, gen_job, run_vars>>

GenNext == \E k \in 1..2 : Generate(k)

GenSpec == GenInit /\ [][GenNext]_vars


(***************************************************************************)
(* FairSpec: one call of run_load_test under the scheduling of the event   *)
(* loop.  A task that can take a step is run: it is admitted when a unit   *)
(* is free, resumed when its session.post has ended (the endpoint answers  *)
(* or fails every call) or its sleep is over, and cancelled when the run   *)
(* is torn down; gather and analyze_results run in the main task.          *)
(***************************************************************************)
ClientStep(c) ==
  /\ c \in Clients
  /\ (Acquire(c) \/ Reply(c) \/ Wake(c) \/ Cancel(c))

MainStep == GatherReturn \/ GatherRaise \/ AnalyzeResults

FairSpec ==
  /\ Spec
  /\ \A c \in 0..(MaxClients - 1) : WF_vars(ClientStep(c))
  /\ WF_vars(MainStep)

(***************************************************************************)
(* AggSpec: analyze_results as a function of self.results.  The collection *)
(* is one that gather can return: conversations of five successful Turns,  *)
(* one conversation whose Turns end with a failed one, and conversations   *)
(* that failed on their first Turn.  The latencies (milliseconds) of the   *)
(* successful Turns are 100, 200, ... in an order set by stride; a failed  *)
(* Turn has a latency below all of them.                                   *)
(***************************************************************************)
\* latencies of the successful Turns: k * stride mod n picks the order
Strides == {1, 3, 7}

\* usage metadata of the replies: none, or total_tokens from this base
UsageBases == {<<>>, <<20>>}

\* latency of the k-th of n successful Turns
sample_latency(k, n, stride) == 100 * (1 + ((k * stride) % n))

\* usage object of the k-th reply
sample_usage(k, base) == IF base = <<>> THEN <<>> ELSE <<base[1] + (k % 3)>>

\* the Turns of the conversation whose successful Turns are numbers
\* first + 1 .. first + len of n, followed by a failed Turn if failing
sample_conversation(first, len, failing, n, stride, base) ==
  [i \in 1..(len + (IF failing THEN 1 ELSE 0)) |->
     IF i <= len
       THEN success_turn(i - 1, sample_latency(first + i, n, stride),
                         total_tokens(sample_usage(first + i, base)))
       ELSE failed_turn(i - 1, 10, "Status 500")]

\* self.results with n successful Turns and first_failed conversations that
\* failed at once
sample_results(n, stride, first_failed, base) ==
  LET full == n \div QuestionsPerConversation
      rest == n % QuestionsPerConversation
      partial == IF rest > 0 THEN 1 ELSE 0
  IN [j \in 1..(full + partial + first_failed) |->
        conversation_result(j - 1,
          IF j <= full
            THEN sample_conversation(QuestionsPerConversation * (j - 1),
                                     QuestionsPerConversation, FALSE, n, stride, base)
          ELSE IF j <= full + partial
            THEN sample_conversation(QuestionsPerConversation * full, rest, TRUE,
                                     n, stride, base)
          ELSE sample_conversation(0, 0, TRUE, n, stride, base))]

AggInit ==
  /\ \E n \in 0..MaxSamples, stride \in Strides, first_failed \in 0..MaxFailedFirst,
        base \in UsageBases :
       results = sample_results(n, stride, first_failed, base)
  /\ phase = "collected"
  /\ num_clients = 0
  /\ max_concurrent = 0
  /\ question_strategy = ""
  /\ hash_salt = 0
  /\ endpoint_usage = <<>>
  /\ rng = UnseededRng
  /\ sem_value = 0
  /\ pc = <<>>
  /\ questions = <<>>
  /\ question_index = <<>>
  /\ messages = <<>>
  /\ conversation_results = <<>>
  /\ endpoint_calls = <<>>
  /\ generation_failed = {}
  /\ stats = NoReport
  /\ GenIdle

AggSpec == AggInit /\ [][AnalyzeResults]_vars
(***************************************************************************)
(* Properties of run_load_test (Spec).                                     *)
(***************************************************************************)
Finished(c) == pc[c] \in {"returned", "raised", "cancelled"}

InFlight == {c \in Clients : pc[c] = "post"}

Holders == {c \in Clients : pc[c] \in {"post", "sleep"}}

FailedAt(c, k) == ~conversation_results[c][k].success

\* C1: in every reachable state the number of conversations that have an
\* endpoint request in flight is at most max_concurrent.
C1_ConcurrencyBound == Cardinality(InFlight) <= max_concurrent

\* C1 witness: more clients than units, max_concurrent requests in flight and
\* a further task waiting at the gate.
C1_Witness ==
  /\ num_clients > max_concurrent
  /\ Cardinality(InFlight) = max_concurrent
  /\ \E c \in Clients : pc[c] = "acquire"

\* C2: a task holds one unit of the gate from before its first request until
\* its conversation has finished, on every exit path: free units plus tasks
\* between their first request and their end make max_concurrent, a task
\* still at the gate has issued no request, and when all tasks are finished
\* all units are free.
C2_GateAccounting ==
  /\ sem_value + Cardinality(Holders) = max_concurrent
  /\ \A c \in Clients : pc[c] = "acquire" => messages[c] = <<>>
  /\ (\A c \in Clients : Finished(c)) => sem_value = max_concurrent

\* C2 witness: all tasks are finished, one by an exception, one by a failed
\* turn after holding its unit across all five turns.
C2_Witness ==
  /\ \A c \in Clients : Finished(c)
  /\ \E c \in Clients : pc[c] = "raised"
  /\ \E c \in Clients :
       /\ pc[c] = "returned"
       /\ Len(conversation_results[c]) = QuestionsPerConversation
       /\ FailedAt(c, QuestionsPerConversation)
  /\ sem_value = max_concurrent

\* C3: fail-fast: a failed Turn is the last Turn of its conversation, and a
\* conversation with a failed Turn has no request in flight and is not pacing
\* towards a next one: it has returned.
C3_FailFast ==
  \A c \in Clients :
    \A k \in 1..Len(conversation_results[c]) :
      FailedAt(c, k) => k = Len(conversation_results[c]) /\ pc[c] = "returned"

\* C3 witness: the endpoint failed on turn 3 of 5: exactly 3 Turns, the third failed.
C3_Witness ==
  \E c \in Clients :
    /\ Len(questions[c]) = 5
    /\ pc[c] = "returned"
    /\ Len(conversation_results[c]) = 3
    /\ conversation_results[c][1].success
    /\ conversation_results[c][2].success
    /\ FailedAt(c, 3)

\* C4: an endpoint failure never aborts the run: no task ends with an
\* exception after it has sent a request (a task that raised is one whose
\* generation failed), run_load_test raises only after a generation failure,
\* and when gather has returned every client task has returned and the
\* collection holds one outcome per client.
C4_EndpointFailuresDoNotAbort ==
  /\ \A c \in Clients : pc[c] = "raised" => c \in generation_failed /\ messages[c] = <<>>
  /\ phase = "raised" => generation_failed # {}
  /\ phase \in {"collected", "reported"} =>
       /\ Len(results) = num_clients
       /\ \A c \in Clients : pc[c] = "returned" /\ results[c + 1].client_id = c

\* C4 witness: gather has returned although one conversation failed by a
\* status and another by an exception in the try block.
C4_Witness ==
  /\ phase = "collected"
  /\ \E c, d \in Clients :
       /\ Len(conversation_results[c]) > 0
       /\ Len(conversation_results[d]) > 0
       /\ FailedAt(c, Len(conversation_results[c]))
       /\ FailedAt(d, Len(conversation_results[d]))
       /\ conversation_results[c][Len(conversation_results[c])].error = "Status 500"
       /\ conversation_results[d][Len(conversation_results[d])].error = "'choices'"

\* C5: a generation failure is fatal to its client task only: the task
\* completes with an outcome of zero Turns and run_load_test does not raise.
C5_GenerationFailureIsolated ==
  /\ \A c \in generation_failed : pc[c] = "returned" /\ conversation_results[c] = <<>>
  /\ generation_failed # {} => phase # "raised"

\* C6: join barrier: once gather has returned (and while and after
\* analyze_results runs) every client task has returned and the collected
\* results are the Turn lists of the tasks: no Turn is recorded afterwards.
C6_JoinBarrier ==
  phase \in {"collected", "reported"} =>
    \A c \in Clients :
      /\ pc[c] = "returned"
      /\ results[c + 1].results = conversation_results[c]

\* C6 witness: a report exists for a run of two or more clients with Turns.
C6_Witness ==
  /\ phase = "reported"
  /\ num_clients >= 2
  /\ \A c \in Clients : Len(conversation_results[c]) > 0

RecordedTurns == {<<c, k>> \in Clients \X (1..QuestionsPerConversation + 3) :
                    k <= Len(conversation_results[c])}

RecordedFailures == {t \in RecordedTurns : FailedAt(t[1], t[2])}

\* C7: the report counts every recorded Turn: failed_requests is the number
\* of failed Turns of all conversations; a report with latency statistics
\* gives successful_requests and total_requests with successful + failed =
\* total = number of recorded Turns; the no-data report (error indicator)
\* stands for zero successful Turns, so its failed count is the total; and
\* the total is at most num_clients x 5.
C7_ReportCounts ==
  phase = "reported" =>
    LET total == Cardinality(RecordedTurns)
        failed == Cardinality(RecordedFailures)
    IN /\ total <= num_clients * QuestionsPerConversation
       /\ stats.failed_requests = failed
       /\ IF "error" \in DOMAIN stats
            THEN failed = total
            ELSE /\ stats.total_requests = total
                 /\ stats.successful_requests = total - failed
                 /\ stats.successful_requests + stats.failed_requests = stats.total_requests

\* C7 witness: a report over successful and failed Turns.
C7_Witness ==
  /\ phase = "reported"
  /\ "error" \notin DOMAIN stats
  /\ stats.successful_requests > 0
  /\ stats.failed_requests > 0

\* C8 (as stated): a Turn list of the planned length has no failed Turn.
C8_FullLengthOnlyIfAllSucceeded ==
  \A c \in Clients :
    Len(conversation_results[c]) = QuestionsPerConversation =>
      \A k \in 1..Len(conversation_results[c]) : ~FailedAt(c, k)

\* C8 (amended): the Turn list is a prefix of the full-length sequence (Turn
\* k is question k, at most the planned count), and a list of the planned
\* length has no failed Turn before its last one.
C8_PrefixOfPlanned ==
  \A c \in Clients :
    /\ Len(conversation_results[c]) <= QuestionsPerConversation
    /\ \A k \in 1..Len(conversation_results[c]) :
         conversation_results[c][k].question_num = k
    /\ Len(conversation_results[c]) = QuestionsPerConversation =>
         \A k \in 1..(QuestionsPerConversation - 1) : ~FailedAt(c, k)

\* C8 witness: a returned conversation of the planned length whose last Turn failed.
C8_Witness ==
  \E c \in Clients :
    /\ pc[c] = "returned"
    /\ Len(conversation_results[c]) = QuestionsPerConversation
    /\ FailedAt(c, QuestionsPerConversation)
    /\ \A k \in 1..(QuestionsPerConversation - 1) : ~FailedAt(c, k)

(***************************************************************************)
(* Properties of the generator (GenSpec).                                  *)
(***************************************************************************)
BothGenerated == gen_out # <<>> /\ gen_out[1] # <<>> /\ gen_out[2] # <<>>

\* C9: determinism: two runs (two processes) with the same strategy give a
\* client index the same prompt sequence.
C9_SamePromptsInBothRuns ==
  (BothGenerated /\ gen_job[1].client_id = gen_job[2].client_id)
    => gen_out[1] = gen_out[2]

\* C10: within one run two different clients never get the same prompt sequence.
C10_DistinctPromptsPerClient ==
  (BothGenerated /\ gen_job[1].salt = gen_job[2].salt
                 /\ gen_job[1].client_id # gen_job[2].client_id)
    => gen_out[1] # gen_out[2]


(***************************************************************************)
(* Properties of analyze_results (AggSpec).  The Turns are counted here    *)
(* from self.results directly, as pairs (conversation, position).          *)
(***************************************************************************)
CollectedTurns ==
  {t \in (1..Len(results)) \X (1..(QuestionsPerConversation + 1)) :
     t[2] <= Len(results[t[1]].results)}

TurnAt(t) == results[t[1]].results[t[2]]

SuccessfulTurns == {t \in CollectedTurns : TurnAt(t).success}

FailedTurns == CollectedTurns \ SuccessfulTurns

\* C11: no-data case: a report over zero successful Turns (failed Turns or
\* none at all) carries exactly the error indicator, the duration and the
\* failed count, and no latency field; analyze_results computes it without a
\* division (the report exists).
C11_NoDataReport ==
  (phase = "reported" /\ SuccessfulTurns = {}) =>
    /\ DOMAIN stats = {"error", "duration_seconds", "failed_requests"}
    /\ stats.error = "No successful requests"
    /\ stats.duration_seconds \in Durations
    /\ stats.failed_requests = Cardinality(FailedTurns)

\* C11 witness: a report over failed Turns only.
C11_Witness ==
  /\ phase = "reported"
  /\ SuccessfulTurns = {}
  /\ FailedTurns # {}
  /\ stats.failed_requests >= 1

SuccessCount == Cardinality(SuccessfulTurns)

\* the latency of each successful Turn
SuccessfulLatency == [t \in SuccessfulTurns |-> TurnAt(t).latency]

\* number of Turns of lat with a latency below v, and not above v
Below(lat, v) == Cardinality({t \in DOMAIN lat : lat[t] < v})

UpTo(lat, v) == Cardinality({t \in DOMAIN lat : lat[t] <= v})

\* v is the element at 0-based index i of the latencies lat in ascending order
IsRanked(lat, v, i) == Below(lat, v) <= i /\ i < UpTo(lat, v)

\* value is the report's form of the latency at index floor(percent * n / 100)
\* of the n latencies lat in ascending order, an index within 0..n-1
NearestRank(lat, value, percent) ==
  /\ (percent * Cardinality(DOMAIN lat)) \div 100 \in 0..(Cardinality(DOMAIN lat) - 1)
  /\ \E t \in DOMAIN lat :
       /\ value = fmt_seconds(lat[t])
       /\ IsRanked(lat, lat[t], (percent * Cardinality(DOMAIN lat)) \div 100)

\* C12 (as stated): for every non-empty collection of successful latencies
\* p50, p95 and p99 are reported as the nearest-rank elements.
C12_NearestRankAll ==
  (phase = "reported" /\ SuccessfulTurns # {}) =>
    /\ NearestRank(SuccessfulLatency, stats.latency_stats.p50, 50)
    /\ NearestRank(SuccessfulLatency, stats.latency_stats.p95, 95)
    /\ NearestRank(SuccessfulLatency, stats.latency_stats.p99, 99)

\* C12 (amended): p50 and p95 are the nearest-rank elements for every
\* non-empty collection of successful latencies, and so is p99 whenever a p99
\* value is reported.
C12_NearestRank ==
  (phase = "reported" /\ SuccessfulTurns # {}) =>
    /\ NearestRank(SuccessfulLatency, stats.latency_stats.p50, 50)
    /\ NearestRank(SuccessfulLatency, stats.latency_stats.p95, 95)
    /\ stats.latency_stats.p99 # "N/A" =>
         NearestRank(SuccessfulLatency, stats.latency_stats.p99, 99)

\* C12 witness: the latencies 0.1, 0.2, 0.3, 0.4, 0.5 s, collected in the
\* order 0.4, 0.2, 0.5, 0.3, 0.1: p50 is 0.3 s; and a collection whose p99 is
\* reported exists as well (C13).
C12_Witness ==
  /\ phase = "reported"
  /\ SuccessCount = 5
  /\ {TurnAt(t).latency : t \in SuccessfulTurns} = {100, 200, 300, 400, 500}
  /\ results[1].results[1].latency = 400
  /\ stats.latency_stats.p50 = "0.300s"
  /\ stats.latency_stats.p95 = "0.500s"

\* the latency fields other than p99
BasicLatencyFields == {"min", "max", "avg", "p50", "p95"}

\* C13: a p99 value is reported only for more than 100 successful Turns:
\* with 1 to 100 of them p99 is "N/A" while min, max, avg, p50 and p95 are
\* reported as values; with more than 100 p99 is a value too.
C13_P99OnlyAbove100 ==
  (phase = "reported" /\ SuccessfulTurns # {}) =>
    /\ DOMAIN stats.latency_stats = BasicLatencyFields \cup {"p99"}
    /\ \A f \in BasicLatencyFields : stats.latency_stats[f] # "N/A"
    /\ stats.latency_stats.p99 = "N/A" <=> SuccessCount <= 100

\* C13 witness: exactly 100 successful Turns: no p99, the other fields
\* reported (p95 is the element at index 95 of 100, 200, ..., 10000 ms).
C13_Witness ==
  /\ phase = "reported"
  /\ SuccessCount = 100
  /\ {TurnAt(t).latency : t \in SuccessfulTurns} = {100 * k : k \in 1..100}
  /\ stats.latency_stats.p99 = "N/A"
  /\ stats.latency_stats.p95 = "9.600s"
  /\ stats.latency_stats.max = "10.000s"

(***************************************************************************)
(* Properties of run_load_test, continued (Spec).                          *)
(***************************************************************************)
RecordedSuccesses == RecordedTurns \ RecordedFailures

\* C14: a report with latency statistics has token statistics only if the
\* successful replies carried usage metadata (a token count that is not
\* absent); if it has them, total_tokens is the sum of the token counts of
\* the successful Turns and avg_tokens_per_request that sum integer-divided
\* by their number.
C14_TokenStatsOnlyWithUsage ==
  (phase = "reported" /\ "error" \notin DOMAIN stats) =>
    /\ "token_stats" \in DOMAIN stats => endpoint_usage # <<>>
    /\ "token_stats" \in DOMAIN stats =>
         /\ stats.token_stats.total_tokens =
              Cardinality(RecordedSuccesses) * total_tokens(endpoint_usage)
         /\ stats.token_stats.avg_tokens_per_request =
              stats.token_stats.total_tokens \div Cardinality(RecordedSuccesses)

\* C15: end to end, when every endpoint call succeeded the report has
\* total_requests = successful_requests = num_clients x 5, no failed
\* request and a success rate of 100.0%, and when the replies carried the
\* token count t, total_tokens = num_clients x 5 x t, in every interleaving.
C15_AllSuccessReport ==
  (phase = "reported" /\ RecordedFailures = {}) =>
    /\ "error" \notin DOMAIN stats
    /\ stats.total_clients = num_clients
    /\ stats.total_requests = num_clients * 5
    /\ stats.successful_requests = num_clients * 5
    /\ stats.failed_requests = 0
    /\ stats.success_rate = "100.0%"
    /\ endpoint_usage # <<>> =>
         stats.token_stats.total_tokens = num_clients * 5 * endpoint_usage[1]

\* C15 witness: two clients, mathematical questions, every reply successful
\* with 20 tokens: 10 requests, 200 tokens.
C15_Witness ==
  /\ phase = "reported"
  /\ num_clients = 2
  /\ question_strategy = "mathematical"
  /\ endpoint_usage = <<20>>
  /\ RecordedFailures = {}
  /\ stats.total_requests = 10
  /\ stats.success_rate = "100.0%"
  /\ stats.token_stats.total_tokens = 200
  /\ stats.token_stats.avg_tokens_per_request = 20

AssistantMessages(c) == {j \in 1..Len(messages[c]) : messages[c][j].role = "assistant"}

SuccessesOf(c) == {k \in 1..Len(conversation_results[c]) : ~FailedAt(c, k)}

\* the history sent with request k of client c: questions 1..k as user
\* messages, each but the last followed by an assistant reply
FullHistory(c, k) ==
  /\ Len(messages[c]) = 2 * k - 1
  /\ \A j \in 1..k : messages[c][2 * j - 1] = [role |-> "user", content |-> questions[c][j]]
  /\ \A j \in 1..(k - 1) : messages[c][2 * j].role = "assistant"

\* request k is in flight only after the Turns 1..k-1 were recorded as
\* successful, and it carries the full history
SequentialTurns(c) ==
  pc[c] = "post" =>
    /\ Len(conversation_results[c]) = question_index[c]
    /\ SuccessesOf(c) = 1..question_index[c]
    /\ FullHistory(c, question_index[c] + 1)

\* C16: within a conversation the turns are sequential and carry the full
\* history (request k follows the successful Turns 1..k-1 and sends 2k-1
\* messages ending with question k), and an assistant message is appended
\* only on success: there are as many assistant messages as successful Turns.
C16_SequentialFullHistory ==
  \A c \in Clients :
    /\ SequentialTurns(c)
    /\ Cardinality(AssistantMessages(c)) = Cardinality(SuccessesOf(c))

\* C17: one attempt per turn: in every state a conversation has recorded as
\* many Turns as it has completed endpoint calls (every call that is over,
\* whatever its result, left exactly one Turn and was not repeated), and the
\* Turns carry the question numbers 1, 2, ..., n in the order recorded.
C17_OneAttemptPerTurn ==
  \A c \in Clients :
    /\ endpoint_calls[c] = Len(conversation_results[c])
    /\ \A k \in 1..Len(conversation_results[c]) :
         conversation_results[c][k].question_num = k

\* C17 witness: three calls, the third answered with status 200 and a body
\* without choices: three Turns, the third failed.
C17_Witness ==
  \E c \in Clients :
    /\ endpoint_calls[c] = 3
    /\ Len(conversation_results[c]) = 3
    /\ FailedAt(c, 3)
    /\ conversation_results[c][3].error = "'choices'"
    /\ conversation_results[c][3].question_num = 3

(***************************************************************************)
(* Termination (FairSpec).                                                 *)
(***************************************************************************)
\* C18: termination without deadlock: under fair scheduling, with every
\* endpoint call ending, every client task is eventually admitted and
\* eventually finishes, and run_load_test eventually returns a report.
C18_Termination ==
  /\ <>(\A c \in Clients : pc[c] # "acquire")
  /\ <>(\A c \in Clients : Finished(c))
  /\ <>(phase = "reported")

(***************************************************************************)
(* Generation and the process-wide generator (Spec).                       *)
(***************************************************************************)
\* what run_client generates for client c in a process whose generator no
\* other client has touched
Fresh(c) == client_questions(UnseededRng, question_strategy, c, hash_salt)

HasGenerated(c) == questions[c] # <<>>

\* the step in which client c gets its prompts
Generates(c) == questions'[c] # questions[c]

\* the prompts of c and the state of the shared generator are as g has them
GeneratedAs(c, g) == questions'[c] = g.questions /\ rng' = g.rng

\* C19: generation is atomic with respect to the other client tasks: in every
\* interleaving the prompts client i gets are those of (strategy, i * 1337),
\* whichever clients generated before it or are in their conversations, and
\* the shared generator changes in no other step than a complete generation.
C19_GenerationAtomic ==
  [][/\ \A c \in Clients : Generates(c) => GeneratedAs(c, Fresh(c))
     /\ rng' # rng => \E c \in Clients : Generates(c)]_vars

\* client 0 generated after client 1 had generated and drawn from the shared
\* generator, and client 1 is still in its conversation
C19_Witness ==
  /\ num_clients = 2
  /\ HasGenerated(0) /\ HasGenerated(1)
  /\ pc[1] \in {"post", "sleep"}
  /\ questions[0] # questions[1]
  /\ rng # UnseededRng
  /\ rng = Fresh(0).rng
  /\ questions[0] = Fresh(0).questions

(***************************************************************************)
(* The collected results (Spec).                                           *)
(***************************************************************************)
Collected == phase \in {"collected", "reported"}

\* C20: the collected results are in the order of the client indices, not of
\* completion: entry i carries client identifier i, the identifiers
\* 0..num_clients-1 are pairwise distinct, and the total client count of the
\* report (the no-data report of analyze_results has none) is num_clients.
C20_ResultsByClientIndex ==
  /\ Collected =>
       /\ Len(results) = num_clients
       /\ \A k \in 1..Len(results) :
            /\ results[k].client_id = k - 1
            /\ results[k].results = conversation_results[k - 1]
       /\ \A j, k \in 1..Len(results) :
            j # k => results[j].client_id # results[k].client_id
  /\ (phase = "reported" /\ "total_clients" \in DOMAIN stats) =>
       stats.total_clients = num_clients

\* one unit, client 1 admitted first: it finished its conversation before
\* client 0 generated (the generator is as client 0 left it), and the
\* collected list still starts with client 0
C20_Witness ==
  /\ phase = "reported"
  /\ num_clients = 2
  /\ max_concurrent = 1
  /\ rng = Fresh(0).rng
  /\ rng # Fresh(1).rng
  /\ results[1].client_id = 0
  /\ results[2].client_id = 1
  /\ "total_clients" \in DOMAIN stats
  /\ stats.total_clients = 2
====
